---------------------------- MODULE Spec2Model ----------------------------
(***************************************************************************)
(* Model of the earthquake-forecast site: the static 24-bin table of       *)
(* BinPage (src/unnamed/part_001), the point-to-bin assignment of the      *)
(* spatial index over that table, and the state machine of ForecastPage    *)
(* (src/eqforecast-site/src/Pages/Forecasting.jsx), in its placeholder     *)
(* revision (lines 1-154) and its live revision (lines 155-502).           *)
(*                                                                         *)
(* Numbers.  Every decimal literal of the bin table is kept exactly, as    *)
(* the integer literal * 10^5 (119.475 is 11947500, 3.97 is 397000), so    *)
(* all arithmetic on coordinates is exact.  Magnitudes and the map         *)
(* coordinates of ForecastPage are kept in tenths (4.2 is 42).             *)
(*                                                                         *)
(* Texts.  The location names of the bin table are kept letter for letter; *)
(* the one character outside ASCII, the en dash of three names, is written *)
(* "_", a character no name and no search term holds otherwise.            *)
(***************************************************************************)
EXTENDS Integers, Sequences, FiniteSets, TLC

VARIABLES
    \* BinPage and the spatial index
    variant,        \* which of the two BinPage revisions of part_001 is built
    binsData,       \* BinPage: the bin table the component holds
    point,          \* the last point given to assign, <<lat, lon>>
    assigned,       \* what assign returned for it
    currentPage,    \* App of part_000: the page displayed
    isLoggedIn,     \* App of part_000: useState(false)
    searchTerm,     \* BinPage: useState("")
    sortConfig,     \* BinPage: useState({ key: "id", direction: "asc" })
    sortedData,     \* BinPage: the sorted copy made by the last render
    store,          \* Historical Store: the events stored, in ingestion order
    lock,           \* Historical Store: the writer holding the write lock, 0 if none
    writers,        \* Historical Store: each ingest call's position and event
    read,           \* Historical Store: the query or stats call last started
    lastClicked,    \* the bin of the forecast-table row clicked last, 0 if none
    appPage,        \* App of App.jsx: currentPage
    \* ForecastPage, live revision
    revision,       \* which revision of Forecasting.jsx is built
    currentYear,    \* new Date().getFullYear() when the page is opened
    mounted,        \* the mount effect has run
    inputYear,      \* useState: a number or NaN
    forecastData,   \* useState: the forecast list
    loading,        \* useState
    selectedBin,    \* useState: null or a bin's detail
    historicalData, \* useState
    error,          \* useState: null or a message
    forecastReqs,   \* GET /api/forecast requests awaiting their response
    detailReqs,     \* GET /api/forecast/{binId} requests awaiting their response
    historicalReqs, \* number of GET /api/historical-data requests awaiting theirs
    completed,      \* the forecast load that finished last: its year and outcome
    \* ForecastPage, placeholder revision
    phInputYear,    \* useState: the text of the year field
    phForecastData  \* useState: the placeholder rows

binVars == <<variant, binsData, point, assigned>>

uiVars == <<currentPage, isLoggedIn, searchTerm, sortConfig, sortedData>>

storeVars == <<store, lock, writers, read>>

fcVars == <<currentYear, mounted, inputYear, forecastData, loading, selectedBin,
            historicalData, error, forecastReqs, detailReqs, historicalReqs,
            completed>>

phVars == <<phInputYear, phForecastData>>

vars == <<binVars, uiVars, storeVars, lastClicked, appPage, revision, fcVars, phVars>>

----------------------------------------------------------------------------
(* The bin table: one definition per row of binsData, both revisions.      *)
(* bounds is [lon_min, lon_max, lat_min, lat_max].                         *)

\* part_001:10-23  { id: 0, bounds: [119.475, 122.65, 7.0, 12.0], width: 3.175, height: 5.0, area: 15.875, center_lat: 9.5, center_lon: 121.0625 }
bin0 ==
    [id |-> 0, bounds |-> <<11947500, 12265000, 700000, 1200000>>,
     width |-> 317500, height |-> 500000, area |-> 1587500,
     center_lat |-> 950000, center_lon |-> 12106250,
     locations |-> <<"Southern Mindoro", "Panay (Aklan, Antique, Iloilo)",
         "Western Negros (Occidental/Oriental)">>]

\* bin1 with the lon_max of its eastern neighbour: the two rectangles overlap
bin1_overlap ==
    [id |-> 1, bounds |-> <<12582500, 12900000, 200000, 450000>>,
     width |-> 158750, height |-> 250000, area |-> 397000,
     center_lat |-> 325000, center_lon |-> 12661875,
     locations |-> <<"Celebes Sea", "Southern Mindanao offshore (Sarangani Bay, Davao Occidental)",
         "Border near Indonesia">>]

\* part_001:24-37  { id: 1, bounds: [125.825, 127.4125, 2.0, 4.5], width: 1.5875, height: 2.5, area: 3.97, center_lat: 3.25, center_lon: 126.61875 }
bin1 ==
    [id |-> 1, bounds |-> <<12582500, 12741250, 200000, 450000>>,
     width |-> 158750, height |-> 250000, area |-> 397000,
     center_lat |-> 325000, center_lon |-> 12661875,
     locations |-> <<"Celebes Sea", "Southern Mindanao offshore (Sarangani Bay, Davao Occidental)",
         "Border near Indonesia">>]

\* bin2 ending one degree short of the table's eastern edge: a strip is left out
bin2_gap ==
    [id |-> 2, bounds |-> <<12741250, 12800000, 200000, 450000>>,
     width |-> 158750, height |-> 250000, area |-> 397000,
     center_lat |-> 325000, center_lon |-> 12820625,
     locations |-> <<"Celebes Sea_Pacific transition (offshore southeast of Mindanao)">>]

\* part_001:38-49  { id: 2, bounds: [127.4125, 129.0, 2.0, 4.5], width: 1.5875, height: 2.5, area: 3.97, center_lat: 3.25, center_lon: 128.20625 }
bin2 ==
    [id |-> 2, bounds |-> <<12741250, 12900000, 200000, 450000>>,
     width |-> 158750, height |-> 250000, area |-> 397000,
     center_lat |-> 325000, center_lon |-> 12820625,
     locations |-> <<"Celebes Sea_Pacific transition (offshore southeast of Mindanao)">>]

\* bin3 carrying the id of the row before it
bin3_dupid ==
    [id |-> 2, bounds |-> <<12582500, 12741250, 450000, 700000>>,
     width |-> 158750, height |-> 250000, area |-> 397000,
     center_lat |-> 575000, center_lon |-> 12661875,
     locations |-> <<"Davao Region (Davao Oriental, Occidental, City)", "Compostela Valley",
         "Parts of Sarangani">>]

\* part_001:50-63  { id: 3, bounds: [125.825, 127.4125, 4.5, 7.0], width: 1.5875, height: 2.5, area: 3.97, center_lat: 5.75, center_lon: 126.61875 }
bin3 ==
    [id |-> 3, bounds |-> <<12582500, 12741250, 450000, 700000>>,
     width |-> 158750, height |-> 250000, area |-> 397000,
     center_lat |-> 575000, center_lon |-> 12661875,
     locations |-> <<"Davao Region (Davao Oriental, Occidental, City)", "Compostela Valley",
         "Parts of Sarangani">>]

\* part_001:64-79  { id: 4, bounds: [124.2375, 125.825, 7.0, 9.5], width: 1.5875, height: 2.5, area: 3.97, center_lat: 8.25, center_lon: 125.03125 }
bin4 ==
    [id |-> 4, bounds |-> <<12423750, 12582500, 700000, 950000>>,
     width |-> 158750, height |-> 250000, area |-> 397000,
     center_lat |-> 825000, center_lon |-> 12503125,
     locations |-> <<"Bukidnon", "Misamis Oriental", "Agusan del Sur", "Northern Davao del Norte",
         "Northern Cotabato">>]

\* part_001:80-97  { id: 5, bounds: [124.2375, 125.825, 9.5, 12.0], width: 1.5875, height: 2.5, area: 3.97, center_lat: 10.75, center_lon: 125.03125 }
bin5 ==
    [id |-> 5, bounds |-> <<12423750, 12582500, 950000, 1200000>>,
     width |-> 158750, height |-> 250000, area |-> 397000,
     center_lat |-> 1075000, center_lon |-> 12503125,
     locations |-> <<"Northern Agusan del Norte", "Northern Surigao del Sur",
         "Northern Mindanao uplands", "Southern Leyte", "Eastern Samar", "Dinagat Islands",
         "Samar">>]

\* part_001:98-112  { id: 6, bounds: [125.825, 127.4125, 7.0, 9.5], width: 1.5875, height: 2.5, area: 3.97, center_lat: 8.25, center_lon: 126.61875 }
bin6 ==
    [id |-> 6, bounds |-> <<12582500, 12741250, 700000, 950000>>,
     width |-> 158750, height |-> 250000, area |-> 397000,
     center_lat |-> 825000, center_lon |-> 12661875,
     locations |-> <<"Surigao del Sur", "Davao Oriental", "Agusan del Sur",
         "Eastern Mindanao offshore (Philippine Trench)">>]

\* part_001:113-127  { id: 7, bounds: [119.475, 121.0625, 12.0, 14.5], width: 1.5875, height: 2.5, area: 3.97, center_lat: 13.25, center_lon: 120.26875 }
bin7 ==
    [id |-> 7, bounds |-> <<11947500, 12106250, 1200000, 1450000>>,
     width |-> 158750, height |-> 250000, area |-> 397000,
     center_lat |-> 1325000, center_lon |-> 12026875,
     locations |-> <<"Southern Luzon (Mindoro, Marinduque, Batangas, Quezon)", "Northern Palawan",
         "Dasmarinas", "Muntilupa">>]

\* part_001:128-145  { id: 8, bounds: [119.475, 121.0625, 14.5, 17.0], width: 1.5875, height: 2.5, area: 3.97, center_lat: 15.75, center_lon: 120.26875 }
bin8 ==
    [id |-> 8, bounds |-> <<11947500, 12106250, 1450000, 1700000>>,
     width |-> 158750, height |-> 250000, area |-> 397000,
     center_lat |-> 1575000, center_lon |-> 12026875,
     locations |-> <<
         "Central Luzon (Zambales, Bataan, Pampanga, Nueva Ecija, Pangasinan, Tarlac, Baguio, Cabanatuan)",
         "Metro Manila edge", "Olangapo", "Bataan", "Mariveles", "Benguet", "La Union">>]

\* part_001:146-168  { id: 9, bounds: [121.0625, 122.65, 14.5, 17.0], width: 1.5875, height: 2.5, area: 3.97, center_lat: 15.75, center_lon: 121.85625 }
bin9 ==
    [id |-> 9, bounds |-> <<12106250, 12265000, 1450000, 1700000>>,
     width |-> 158750, height |-> 250000, area |-> 397000,
     center_lat |-> 1575000, center_lon |-> 12185625,
     locations |-> <<"Quezon Province", "Pasig", "Taguig", "Rizal", "Tanay", "Antipolo",
         "Dona Remedios Trinidad", "Montalbon", "Quirino", "Aurora", "Camarines Norte",
         "Polillo Islands">>]

\* part_001:169-182  { id: 10, bounds: [119.475, 121.0625, 17.0, 19.5], width: 1.5875, height: 2.5, area: 3.97, center_lat: 18.25, center_lon: 120.26875 }
bin10 ==
    [id |-> 10, bounds |-> <<11947500, 12106250, 1700000, 1950000>>,
     width |-> 158750, height |-> 250000, area |-> 397000,
     center_lat |-> 1825000, center_lon |-> 12026875,
     locations |-> <<"Ilocos Region (Ilocos Norte, Ilocos Sur, La Union, Pangasinan)", "Abra",
         "Vigan">>]

\* part_001:183-200  { id: 11, bounds: [121.0625, 122.65, 17.0, 19.5], width: 1.5875, height: 2.5, area: 3.97, center_lat: 18.25, center_lon: 121.85625 }
bin11 ==
    [id |-> 11, bounds |-> <<12106250, 12265000, 1700000, 1950000>>,
     width |-> 158750, height |-> 250000, area |-> 397000,
     center_lat |-> 1825000, center_lon |-> 12185625,
     locations |-> <<"Nueva Vizcaya", "Quirino", "Southern Isabela", "Tuguegarao", "Ilagan",
         "Apayao", "Kalinga">>]

\* part_001:201-213  { id: 12, bounds: [119.475, 121.0625, 19.5, 22.0], width: 1.5875, height: 2.5, area: 3.97, center_lat: 20.75, center_lon: 120.26875 }
bin12 ==
    [id |-> 12, bounds |-> <<11947500, 12106250, 1950000, 2200000>>,
     width |-> 158750, height |-> 250000, area |-> 397000,
     center_lat |-> 2075000, center_lon |-> 12026875,
     locations |-> <<"Northern Luzon (Cagayan, Apayao, Mountain Province, Kalinga)",
         "Batanes offshore">>]

\* part_001:214-228  { id: 13, bounds: [121.0625, 122.65, 19.5, 22.0], width: 1.5875, height: 2.5, area: 3.97, center_lat: 20.75, center_lon: 121.85625 }
bin13 ==
    [id |-> 13, bounds |-> <<12106250, 12265000, 1950000, 2200000>>,
     width |-> 158750, height |-> 250000, area |-> 397000,
     center_lat |-> 2075000, center_lon |-> 12185625,
     locations |-> <<"Eastern Cagayan Valley", "Batanes", "Northern Isabela",
         "Cagayan up to Babuyan Islands">>]

\* part_001:229-245  { id: 14, bounds: [124.2375, 125.825, 12.0, 14.5], width: 1.5875, height: 2.5, area: 3.97, center_lat: 13.25, center_lon: 125.03125 }
bin14 ==
    [id |-> 14, bounds |-> <<12423750, 12582500, 1200000, 1450000>>,
     width |-> 158750, height |-> 250000, area |-> 397000,
     center_lat |-> 1325000, center_lon |-> 12503125,
     locations |-> <<"Samar", "Northern Samar", "Masbate", "Sorsogon", "Albay", "Catanduanes">>]

\* part_001:246-258  { id: 15, bounds: [127.4125, 129.0, 4.5, 9.5], width: 1.5875, height: 5.0, area: 7.94, center_lat: 7.0, center_lon: 128.20625 }
bin15 ==
    [id |-> 15, bounds |-> <<12741250, 12900000, 450000, 950000>>,
     width |-> 158750, height |-> 500000, area |-> 794000,
     center_lat |-> 700000, center_lon |-> 12820625,
     locations |-> <<"Philippine Trench (east of Mindanao)", "Offshore Davao_Caraga">>]

\* part_001:259-271  { id: 16, bounds: [122.65, 124.2375, 7.0, 12.0], width: 1.5875, height: 5.0, area: 7.94, center_lat: 9.5, center_lon: 123.44375 }
bin16 ==
    [id |-> 16, bounds |-> <<12265000, 12423750, 700000, 1200000>>,
     width |-> 158750, height |-> 500000, area |-> 794000,
     center_lat |-> 950000, center_lon |-> 12344375,
     locations |-> <<
         "Central_Eastern Visayas (Leyte, Samar, Biliran, Cebu, Bohol, Zambonga del Sur, Lanao del Norte, Misamis Occidental, Parts of Zambonga del Norte)",
         "Northern Mindanao coast">>]

\* part_001:272-293  { id: 17, bounds: [121.0625, 124.2375, 12.0, 14.5], width: 3.175, height: 2.5, area: 7.94, center_lat: 13.25, center_lon: 122.65 }
bin17 ==
    [id |-> 17, bounds |-> <<12106250, 12423750, 1200000, 1450000>>,
     width |-> 317500, height |-> 250000, area |-> 794000,
     center_lat |-> 1325000, center_lon |-> 12265000,
     locations |-> <<"Bicol Region (Camarines Norte, Camarines Sur, Albay)", "Sibuyan Island",
         "Parts of Masbate", "Romblon", " Sorosogon", "Oriental Mindoro", "Marinduque",
         "Catanduanes", "Parts of Batangas", "Calamba Laguna", "Quezon">>]

\* part_001:294-306  { id: 18, bounds: [125.825, 129.0, 12.0, 22.0], width: 3.175, height: 10.0, area: 31.75, center_lat: 17.0, center_lon: 127.4125 }
bin18 ==
    [id |-> 18, bounds |-> <<12582500, 12900000, 1200000, 2200000>>,
     width |-> 317500, height |-> 1000000, area |-> 3175000,
     center_lat |-> 1700000, center_lon |-> 12741250,
     locations |-> <<"Philippine Trench (east of Luzon & Samar)", "Deep Pacific offshore area">>]

\* part_001:307-318  { id: 19, bounds: [124.2375, 125.825, 2.0, 7.0], width: 1.5875, height: 5.0, area: 7.94, center_lat: 4.5, center_lon: 125.03125 }
bin19 ==
    [id |-> 19, bounds |-> <<12423750, 12582500, 200000, 700000>>,
     width |-> 158750, height |-> 500000, area |-> 794000,
     center_lat |-> 450000, center_lon |-> 12503125,
     locations |-> <<
         "Southern Mindanao (General Santos, South Cotabato, Sarangani, Sultan Kudarat, Davao Occidental, Davao del Sur, Maguindanao del Sur)">>]

\* part_001:319-333  { id: 20, bounds: [125.825, 129.0, 9.5, 12.0], width: 3.175, height: 2.5, area: 7.94, center_lat: 10.75, center_lon: 127.4125 }
bin20 ==
    [id |-> 20, bounds |-> <<12582500, 12900000, 950000, 1200000>>,
     width |-> 317500, height |-> 250000, area |-> 794000,
     center_lat |-> 1075000, center_lon |-> 12741250,
     locations |-> <<"Eastern Visayas offshore (Samar, Leyte east coast)", "Siargao", "Socorro",
         "Philippine Trench (Tacloban_Borongan area)">>]

\* part_001:334-346  { id: 21, bounds: [122.65, 125.825, 14.5, 22.0], width: 3.175, height: 7.5, area: 23.81, center_lat: 18.25, center_lon: 124.2375 }
bin21 ==
    [id |-> 21, bounds |-> <<12265000, 12582500, 1450000, 2200000>>,
     width |-> 317500, height |-> 750000, area |-> 2381000,
     center_lat |-> 1825000, center_lon |-> 12423750,
     locations |-> <<"Bicol Region (Camarines Sur, Albay, Catanduanes)",
         "Eastern Luzon (Quezon, Aurora, Isabela coastal areas)">>]

\* part_001:347-362  { id: 22, bounds: [116.3, 119.475, 7.0, 22.0], width: 3.175, height: 15.0, area: 47.625, center_lat: 14.5, center_lon: 117.8875 }
bin22 ==
    [id |-> 22, bounds |-> <<11630000, 11947500, 700000, 2200000>>,
     width |-> 317500, height |-> 1500000, area |-> 4762500,
     center_lat |-> 1450000, center_lon |-> 11788750,
     locations |-> <<"Palawan", "Mindoro", "Calamian Islands", "Balabac",
         "Spratly Islands vicinity (West Philippine Sea)">>]

\* part_001:363-376  { id: 23, bounds: [116.3, 124.2375, 2.0, 7.0], width: 7.9375, height: 5.0, area: 39.6875, center_lat: 4.5, center_lon: 120.26875 }
bin23 ==
    [id |-> 23, bounds |-> <<11630000, 12423750, 200000, 700000>>,
     width |-> 793750, height |-> 500000, area |-> 3968750,
     center_lat |-> 450000, center_lon |-> 12026875,
     locations |-> <<"Sulu Archipelago (Tawi-Tawi, Basilan, Jolo)", "Zamboanga City ",
         "Celebes Sea">>]

\* part_001:700-709  { id: 0, bounds: [119.475, 122.65, 7.0, 12.0], width: 3.175, height: 5.0, area: 15.875, center_lat: 9.5, center_lon: 121.0625 }
bin0_v2 ==
    [id |-> 0, bounds |-> <<11947500, 12265000, 700000, 1200000>>,
     width |-> 317500, height |-> 500000, area |-> 1587500,
     center_lat |-> 950000, center_lon |-> 12106250,
     locations |-> <<"Palawan (northern part)", "Mindoro", "Romblon">>]

\* part_001:710-719  { id: 1, bounds: [125.825, 127.4125, 2.0, 4.5], width: 1.5875, height: 2.5, area: 3.97, center_lat: 3.25, center_lon: 126.61875 }
bin1_v2 ==
    [id |-> 1, bounds |-> <<12582500, 12741250, 200000, 450000>>,
     width |-> 158750, height |-> 250000, area |-> 397000,
     center_lat |-> 325000, center_lon |-> 12661875,
     locations |-> <<"North Maluku", "Halmahera Sea">>]

\* part_001:720-729  { id: 2, bounds: [127.4125, 129.0, 2.0, 4.5], width: 1.5875, height: 2.5, area: 3.97, center_lat: 3.25, center_lon: 128.20625 }
bin2_v2 ==
    [id |-> 2, bounds |-> <<12741250, 12900000, 200000, 450000>>,
     width |-> 158750, height |-> 250000, area |-> 397000,
     center_lat |-> 325000, center_lon |-> 12820625,
     locations |-> <<"Maluku Sea", "Eastern Halmahera">>]

\* part_001:730-739  { id: 3, bounds: [125.825, 127.4125, 4.5, 7.0], width: 1.5875, height: 2.5, area: 3.97, center_lat: 5.75, center_lon: 126.61875 }
bin3_v2 ==
    [id |-> 3, bounds |-> <<12582500, 12741250, 450000, 700000>>,
     width |-> 158750, height |-> 250000, area |-> 397000,
     center_lat |-> 575000, center_lon |-> 12661875,
     locations |-> <<"Sangihe Islands", "North Sulawesi Sea">>]

\* part_001:740-749  { id: 4, bounds: [124.2375, 125.825, 7.0, 9.5], width: 1.5875, height: 2.5, area: 3.97, center_lat: 8.25, center_lon: 125.03125 }
bin4_v2 ==
    [id |-> 4, bounds |-> <<12423750, 12582500, 700000, 950000>>,
     width |-> 158750, height |-> 250000, area |-> 397000,
     center_lat |-> 825000, center_lon |-> 12503125,
     locations |-> <<"Northern Mindanao", "Camiguin", "Bohol Sea">>]

\* part_001:750-759  { id: 5, bounds: [124.2375, 125.825, 9.5, 12.0], width: 1.5875, height: 2.5, area: 3.97, center_lat: 10.75, center_lon: 125.03125 }
bin5_v2 ==
    [id |-> 5, bounds |-> <<12423750, 12582500, 950000, 1200000>>,
     width |-> 158750, height |-> 250000, area |-> 397000,
     center_lat |-> 1075000, center_lon |-> 12503125,
     locations |-> <<"Cebu", "Bohol", "Central Visayas">>]

\* part_001:760-769  { id: 6, bounds: [125.825, 127.4125, 7.0, 9.5], width: 1.5875, height: 2.5, area: 3.97, center_lat: 8.25, center_lon: 126.61875 }
bin6_v2 ==
    [id |-> 6, bounds |-> <<12582500, 12741250, 700000, 950000>>,
     width |-> 158750, height |-> 250000, area |-> 397000,
     center_lat |-> 825000, center_lon |-> 12661875,
     locations |-> <<"Davao Gulf", "Mindanao Sea", "Surigao">>]

\* part_001:770-779  { id: 7, bounds: [119.475, 121.0625, 12.0, 14.5], width: 1.5875, height: 2.5, area: 3.97, center_lat: 13.25, center_lon: 120.26875 }
bin7_v2 ==
    [id |-> 7, bounds |-> <<11947500, 12106250, 1200000, 1450000>>,
     width |-> 158750, height |-> 250000, area |-> 397000,
     center_lat |-> 1325000, center_lon |-> 12026875,
     locations |-> <<"Southern Luzon", "Mindoro Strait", "Batangas">>]

\* part_001:780-789  { id: 8, bounds: [119.475, 121.0625, 14.5, 17.0], width: 1.5875, height: 2.5, area: 3.97, center_lat: 15.75, center_lon: 120.26875 }
bin8_v2 ==
    [id |-> 8, bounds |-> <<11947500, 12106250, 1450000, 1700000>>,
     width |-> 158750, height |-> 250000, area |-> 397000,
     center_lat |-> 1575000, center_lon |-> 12026875,
     locations |-> <<"Central Luzon", "Manila Bay", "Zambales">>]

\* part_001:790-799  { id: 9, bounds: [121.0625, 122.65, 14.5, 17.0], width: 1.5875, height: 2.5, area: 3.97, center_lat: 15.75, center_lon: 121.85625 }
bin9_v2 ==
    [id |-> 9, bounds |-> <<12106250, 12265000, 1450000, 1700000>>,
     width |-> 158750, height |-> 250000, area |-> 397000,
     center_lat |-> 1575000, center_lon |-> 12185625,
     locations |-> <<"Metro Manila", "Rizal", "Laguna", "Quezon">>]

\* part_001:800-809  { id: 10, bounds: [119.475, 121.0625, 17.0, 19.5], width: 1.5875, height: 2.5, area: 3.97, center_lat: 18.25, center_lon: 120.26875 }
bin10_v2 ==
    [id |-> 10, bounds |-> <<11947500, 12106250, 1700000, 1950000>>,
     width |-> 158750, height |-> 250000, area |-> 397000,
     center_lat |-> 1825000, center_lon |-> 12026875,
     locations |-> <<"Ilocos", "La Union", "Pangasinan">>]

\* part_001:810-819  { id: 11, bounds: [121.0625, 122.65, 17.0, 19.5], width: 1.5875, height: 2.5, area: 3.97, center_lat: 18.25, center_lon: 121.85625 }
bin11_v2 ==
    [id |-> 11, bounds |-> <<12106250, 12265000, 1700000, 1950000>>,
     width |-> 158750, height |-> 250000, area |-> 397000,
     center_lat |-> 1825000, center_lon |-> 12185625,
     locations |-> <<"Cagayan Valley", "Nueva Ecija", "Tarlac">>]

\* part_001:820-829  { id: 12, bounds: [119.475, 121.0625, 19.5, 22.0], width: 1.5875, height: 2.5, area: 3.97, center_lat: 20.75, center_lon: 120.26875 }
bin12_v2 ==
    [id |-> 12, bounds |-> <<11947500, 12106250, 1950000, 2200000>>,
     width |-> 158750, height |-> 250000, area |-> 397000,
     center_lat |-> 2075000, center_lon |-> 12026875,
     locations |-> <<"Northern Luzon", "Cagayan", "Ilocos Norte">>]

\* part_001:830-839  { id: 13, bounds: [121.0625, 122.65, 19.5, 22.0], width: 1.5875, height: 2.5, area: 3.97, center_lat: 20.75, center_lon: 121.85625 }
bin13_v2 ==
    [id |-> 13, bounds |-> <<12106250, 12265000, 1950000, 2200000>>,
     width |-> 158750, height |-> 250000, area |-> 397000,
     center_lat |-> 2075000, center_lon |-> 12185625,
     locations |-> <<"Cagayan", "Isabela", "Kalinga">>]

\* part_001:840-849  { id: 14, bounds: [124.2375, 125.825, 12.0, 14.5], width: 1.5875, height: 2.5, area: 3.97, center_lat: 13.25, center_lon: 125.03125 }
bin14_v2 ==
    [id |-> 14, bounds |-> <<12423750, 12582500, 1200000, 1450000>>,
     width |-> 158750, height |-> 250000, area |-> 397000,
     center_lat |-> 1325000, center_lon |-> 12503125,
     locations |-> <<"Samar", "Eastern Visayas", "Leyte Gulf">>]

\* part_001:850-859  { id: 15, bounds: [127.4125, 129.0, 4.5, 9.5], width: 1.5875, height: 5.0, area: 7.94, center_lat: 7.0, center_lon: 128.20625 }
bin15_v2 ==
    [id |-> 15, bounds |-> <<12741250, 12900000, 450000, 950000>>,
     width |-> 158750, height |-> 500000, area |-> 794000,
     center_lat |-> 700000, center_lon |-> 12820625,
     locations |-> <<"North Maluku", "Celebes Sea">>]

\* part_001:860-869  { id: 16, bounds: [122.65, 124.2375, 7.0, 12.0], width: 1.5875, height: 5.0, area: 7.94, center_lat: 9.5, center_lon: 123.44375 }
bin16_v2 ==
    [id |-> 16, bounds |-> <<12265000, 12423750, 700000, 1200000>>,
     width |-> 158750, height |-> 500000, area |-> 794000,
     center_lat |-> 950000, center_lon |-> 12344375,
     locations |-> <<"Negros", "Siquijor", "Bohol Sea">>]

\* bin17 of the second revision with two digits of center_lon swapped (122.56)
bin17_v2_center ==
    [id |-> 17, bounds |-> <<12106250, 12423750, 1200000, 1450000>>,
     width |-> 317500, height |-> 250000, area |-> 794000,
     center_lat |-> 1325000, center_lon |-> 12256000,
     locations |-> <<"Bicol Peninsula", "Masbate", "Albay">>]

\* part_001:870-879  { id: 17, bounds: [121.0625, 124.2375, 12.0, 14.5], width: 3.175, height: 2.5, area: 7.94, center_lat: 13.25, center_lon: 122.65 }
bin17_v2 ==
    [id |-> 17, bounds |-> <<12106250, 12423750, 1200000, 1450000>>,
     width |-> 317500, height |-> 250000, area |-> 794000,
     center_lat |-> 1325000, center_lon |-> 12265000,
     locations |-> <<"Bicol Peninsula", "Masbate", "Albay">>]

\* part_001:880-889  { id: 18, bounds: [125.825, 129.0, 12.0, 22.0], width: 3.175, height: 10.0, area: 31.75, center_lat: 17.0, center_lon: 127.4125 }
bin18_v2 ==
    [id |-> 18, bounds |-> <<12582500, 12900000, 1200000, 2200000>>,
     width |-> 317500, height |-> 1000000, area |-> 3175000,
     center_lat |-> 1700000, center_lon |-> 12741250,
     locations |-> <<"Philippine Sea", "Pacific Ocean">>]

\* part_001:890-899  { id: 19, bounds: [124.2375, 125.825, 2.0, 7.0], width: 1.5875, height: 5.0, area: 7.94, center_lat: 4.5, center_lon: 125.03125 }
bin19_v2 ==
    [id |-> 19, bounds |-> <<12423750, 12582500, 200000, 700000>>,
     width |-> 158750, height |-> 500000, area |-> 794000,
     center_lat |-> 450000, center_lon |-> 12503125,
     locations |-> <<"North Sulawesi", "Celebes Sea">>]

\* part_001:900-909  { id: 20, bounds: [125.825, 129.0, 9.5, 12.0], width: 3.175, height: 2.5, area: 7.94, center_lat: 10.75, center_lon: 127.4125 }
bin20_v2 ==
    [id |-> 20, bounds |-> <<12582500, 12900000, 950000, 1200000>>,
     width |-> 317500, height |-> 250000, area |-> 794000,
     center_lat |-> 1075000, center_lon |-> 12741250,
     locations |-> <<"Mindanao Sea", "Eastern Mindanao">>]

\* part_001:910-919  { id: 21, bounds: [122.65, 125.825, 14.5, 22.0], width: 3.175, height: 7.5, area: 23.81, center_lat: 18.25, center_lon: 124.2375 }
bin21_v2 ==
    [id |-> 21, bounds |-> <<12265000, 12582500, 1450000, 2200000>>,
     width |-> 317500, height |-> 750000, area |-> 2381000,
     center_lat |-> 1825000, center_lon |-> 12423750,
     locations |-> <<"Northern Philippines Sea", "Luzon Strait">>]

\* part_001:920-929  { id: 22, bounds: [116.3, 119.475, 7.0, 22.0], width: 3.175, height: 15.0, area: 47.625, center_lat: 14.5, center_lon: 117.8875 }
bin22_v2 ==
    [id |-> 22, bounds |-> <<11630000, 11947500, 700000, 2200000>>,
     width |-> 317500, height |-> 1500000, area |-> 4762500,
     center_lat |-> 1450000, center_lon |-> 11788750,
     locations |-> <<"South China Sea", "Western Philippines">>]

\* part_001:930-939  { id: 23, bounds: [116.3, 124.2375, 2.0, 7.0], width: 7.9375, height: 5.0, area: 39.6875, center_lat: 4.5, center_lon: 120.26875 }
bin23_v2 ==
    [id |-> 23, bounds |-> <<11630000, 12423750, 200000, 700000>>,
     width |-> 793750, height |-> 500000, area |-> 3968750,
     center_lat |-> 450000, center_lon |-> 12026875,
     locations |-> <<"Sulu Sea", "Southern Philippines", "Palawan (southern)">>]
binsData_v1 ==
    <<bin0, bin1, bin2, bin3, bin4, bin5, bin6, bin7, bin8, bin9, bin10, bin11,
      bin12, bin13, bin14, bin15, bin16, bin17, bin18, bin19, bin20, bin21,
      bin22, bin23>>

binsData_v2 ==
    <<bin0_v2, bin1_v2, bin2_v2, bin3_v2, bin4_v2, bin5_v2, bin6_v2, bin7_v2,
      bin8_v2, bin9_v2, bin10_v2, bin11_v2, bin12_v2, bin13_v2, bin14_v2,
      bin15_v2, bin16_v2, bin17_v2, bin18_v2, bin19_v2, bin20_v2, bin21_v2,
      bin22_v2, bin23_v2>>

Variants == {1, 2}

BinsOfVariant(v) == IF v = 1 THEN binsData_v1 ELSE binsData_v2

lon_min(b) == b.bounds[1]
lon_max(b) == b.bounds[2]
lat_min(b) == b.bounds[3]
lat_max(b) == b.bounds[4]

----------------------------------------------------------------------------
(* Bin Registry load-time validation and Spatial Index (spec 4.1, 4.2).    *)

\* assign's answer for a point no bin contains; bin ids are non-negative
Unassigned == -1

\* 4.1: a definition with duplicate ids or a degenerate rectangle is rejected
ValidateRegistry(bins) ==
    IF \/ \E i, j \in DOMAIN bins : i # j /\ bins[i].id = bins[j].id
       \/ \E i \in DOMAIN bins :
            lon_min(bins[i]) >= lon_max(bins[i]) \/ lat_min(bins[i]) >= lat_max(bins[i])
    THEN "ConfigurationError"
    ELSE "ok"

\* 4.2: bounds contain the point, both ends inclusive
Contains(b, lat, lon) ==
    /\ lon_min(b) <= lon /\ lon <= lon_max(b)
    /\ lat_min(b) <= lat /\ lat <= lat_max(b)

\* 4.2 tie-break: smaller area first, then smaller id
Preferred(b, c) == b.area < c.area \/ (b.area = c.area /\ b.id < c.id)

\* 4.2: linear scan over the bins, keeping the preferred match so far
\* (best is its index, 0 while nothing has matched)
RECURSIVE Scan(_, _, _, _, _)
Scan(bins, i, lat, lon, best) ==
    IF i > Len(bins) THEN best
    ELSE Scan(bins, i + 1, lat, lon,
              IF Contains(bins[i], lat, lon)
                 /\ (best = 0 \/ Preferred(bins[i], bins[best]))
              THEN i ELSE best)

assign(bins, lat, lon) ==
    LET best == Scan(bins, 1, lat, lon, 0)
    IN  IF best = 0 THEN Unassigned ELSE bins[best].id

----------------------------------------------------------------------------
(* Points given to assign.  The bins are axis-parallel rectangles, so a    *)
(* point's containing bins depend only on where its coordinates lie among  *)
(* the edge coordinates of the table: on an edge, between two consecutive  *)
(* edges, or beyond the outermost ones.  One point per such class.         *)

AllRows == {binsData_v1[i] : i \in DOMAIN binsData_v1}
               \cup {binsData_v2[i] : i \in DOMAIN binsData_v2}

LonEdges == UNION {{lon_min(b), lon_max(b)} : b \in AllRows}
LatEdges == UNION {{lat_min(b), lat_max(b)} : b \in AllRows}

SetMin(S) == CHOOSE x \in S : \A y \in S : x <= y
SetMax(S) == CHOOSE x \in S : \A y \in S : y <= x

ProbeCoords(E) ==
    E \cup {(a + b) \div 2 : <<a, b>> \in
               {p \in E \X E : p[1] < p[2] /\ ~\E c \in E : p[1] < c /\ c < p[2]}}
      \cup {SetMin(E) - 1, SetMax(E) + 1}

ProbeLons == ProbeCoords(LonEdges)
ProbeLats == ProbeCoords(LatEdges)

NoPoint == <<>>

----------------------------------------------------------------------------
(* The spatial-index machine: the table of one revision, and assign        *)
(* applied to one point after another.                                     *)

InitBins ==
    /\ variant \in Variants
    /\ binsData = BinsOfVariant(variant)
    /\ point = NoPoint
    /\ assigned = Unassigned

AssignPoint(lat, lon) ==
    /\ point' = <<lat, lon>>
    /\ assigned' = assign(binsData, lat, lon)
    /\ UNCHANGED <<variant, binsData>>

----------------------------------------------------------------------------
(* BinPage: sorting, searching and navigation (part_001, part_000).        *)

\* the comparator given to sort (lines 387-405): the sign of its number decides
Compare(a, b, cfg) ==
    IF cfg.key = "id"
    THEN IF cfg.direction = "asc" THEN a.id - b.id ELSE b.id - a.id
    ELSE IF cfg.key = "area"
    THEN IF cfg.direction = "asc" THEN a.area - b.area ELSE b.area - a.area
    ELSE IF cfg.key = "center_lat"
    THEN IF cfg.direction = "asc"
         THEN a.center_lat - b.center_lat
         ELSE b.center_lat - a.center_lat
    ELSE IF cfg.key = "center_lon"
    THEN IF cfg.direction = "asc"
         THEN a.center_lon - b.center_lon
         ELSE b.center_lon - a.center_lon
    ELSE 0

\* a sort that is not stable: x goes before the elements it compares equal to
InsertStable_before(s, x, cfg) ==
    LET before == {i \in DOMAIN s : Compare(s[i], x, cfg) < 0}
        k == IF before = {} THEN 0 ELSE SetMax(before)
    IN  SubSeq(s, 1, k) \o <<x>> \o SubSeq(s, k + 1, Len(s))

\* Array.prototype.sort is stable: x goes behind every element that does not
\* compare greater than it
InsertStable(s, x, cfg) ==
    LET before == {i \in DOMAIN s : Compare(s[i], x, cfg) <= 0}
        k == IF before = {} THEN 0 ELSE SetMax(before)
    IN  SubSeq(s, 1, k) \o <<x>> \o SubSeq(s, k + 1, Len(s))

RECURSIVE SortFrom(_, _, _, _)
SortFrom(s, i, cfg, acc) ==
    IF i > Len(s) THEN acc
    ELSE SortFrom(s, i + 1, cfg, InsertStable(acc, s[i], cfg))

\* [...binsData].sort(comparator): the sorted copy
SortedCopy(bins, cfg) == SortFrom(bins, 1, cfg, <<>>)

\* a sort of the array itself, not of a copy of it
SourceAfterSort_inplace(bins, cfg) == SortedCopy(bins, cfg)

\* [...binsData]: the spread makes the copy, the sort leaves binsData as it is
SourceAfterSort(bins, cfg) == bins

\* String.prototype.toLowerCase, for the letters the texts hold
toLowerCase(s) ==
    LET upper == "ABCDEFGHIJKLMNOPQRSTUVWXYZ"
        lower == "abcdefghijklmnopqrstuvwxyz"
        Low(c) == IF \E k \in 1..Len(upper) : SubSeq(upper, k, k) = c
                  THEN LET k == CHOOSE k \in 1..Len(upper) : SubSeq(upper, k, k) = c
                       IN  SubSeq(lower, k, k)
                  ELSE c
        RECURSIVE Part(_, _)
        Part(i, j) ==
            IF i > j THEN ""
            ELSE IF i = j THEN Low(SubSeq(s, i, i))
            ELSE Part(i, (i + j) \div 2) \o Part((i + j) \div 2 + 1, j)
    IN  Part(1, Len(s))

\* String.prototype.includes: the term starts at some position of the text
includes(text, term) ==
    \E i \in 1..(Len(text) - Len(term) + 1) :
        SubSeq(text, i, i + Len(term) - 1) = term

\* Number.prototype.toString of a non-negative integer
IntText(n) ==
    LET digits == "0123456789"
        RECURSIVE Text(_)
        Text(m) == IF m < 10 THEN SubSeq(digits, m + 1, m + 1)
                   ELSE Text(m \div 10) \o SubSeq(digits, (m % 10) + 1, (m % 10) + 1)
    IN  Text(n)

\* Number.prototype.toString of a decimal held in units of 10^-5: the integer
\* part, then the fraction without its trailing zeros, none if it is zero
DecimalText(v) ==
    LET RECURSIVE Fraction(_, _)
        Fraction(f, width) ==
            IF f % 10 = 0 THEN Fraction(f \div 10, width - 1)
            ELSE LET t == IntText(f)
                 IN  SubSeq("00000", 1, width - Len(t)) \o t
    IN  IF v % 100000 = 0 THEN IntText(v \div 100000)
        ELSE IntText(v \div 100000) \o "." \o Fraction(v % 100000, 5)

\* the filter with the search term taken as typed
binMatches_rawterm(bin, term) ==
    \/ includes(IntText(bin.id), term)
    \/ \E k \in DOMAIN bin.locations : includes(toLowerCase(bin.locations[k]), term)
    \/ includes(DecimalText(bin.center_lat), term)
    \/ includes(DecimalText(bin.center_lon), term)

\* the predicate of filteredData's filter
binMatches(bin, term) ==
    LET searchLower == toLowerCase(term)
    IN  \/ includes(IntText(bin.id), searchLower)
        \/ \E k \in DOMAIN bin.locations :
              includes(toLowerCase(bin.locations[k]), searchLower)
        \/ includes(DecimalText(bin.center_lat), searchLower)
        \/ includes(DecimalText(bin.center_lon), searchLower)

\* filteredData, computed by each render from sortedData and searchTerm
filteredData == SelectSeq(sortedData, LAMBDA bin : binMatches(bin, searchTerm))

\* the 'Total Bins' figure: filteredData.length
totalBins == Len(filteredData)

\* the 'No bins found' message is rendered
noResultsShown == Len(filteredData) = 0

InitialSortConfig == [key |-> "id", direction |-> "asc"]

\* the columns whose header calls handleSort
SortKeys == {"id", "center_lat", "center_lon", "area"}

\* the texts typed into the search field
SearchTerms == {"", "0", "luzon", "MINDANAO", "9.5", "7.0", "zzz"}

\* a menu that offers Admin to everybody
BinPageNavTargets_admin(loggedIn) == {3, 5, 6, 4, 7, 8, 2}

\* the pages the navigation controls of BinPage lead to
BinsPage == 8

BinPageNavTargets(loggedIn) ==
    {3, 5, 6, 4, 7, BinsPage} \cup (IF loggedIn THEN {2} ELSE {})

\* BinPage as App mounts it
InitBinPageState ==
    /\ currentPage = BinsPage
    /\ isLoggedIn = FALSE
    /\ searchTerm = ""
    /\ sortConfig = InitialSortConfig
    /\ sortedData = SortedCopy(binsData, InitialSortConfig)

\* a handleSort that flips the direction whatever column is clicked
HandleSort_flips(key) ==
    /\ currentPage = BinsPage
    /\ sortConfig' =
          [key |-> key,
           direction |-> IF sortConfig.direction = "asc" THEN "desc" ELSE "asc"]
    /\ binsData' = SourceAfterSort(binsData, sortConfig')
    /\ sortedData' = SortedCopy(binsData, sortConfig')
    /\ UNCHANGED <<variant, point, assigned, currentPage, isLoggedIn, searchTerm>>

\* handleSort(key) and the render that follows it
HandleSort(key) ==
    /\ currentPage = BinsPage
    /\ sortConfig' =
          [key |-> key,
           direction |-> IF sortConfig.key = key /\ sortConfig.direction = "asc"
                         THEN "desc" ELSE "asc"]
    /\ binsData' = SourceAfterSort(binsData, sortConfig')
    /\ sortedData' = SortedCopy(binsData, sortConfig')
    /\ UNCHANGED <<variant, point, assigned, currentPage, isLoggedIn, searchTerm>>

\* the search field's onChange and the render that follows it
SetSearchTerm(term) ==
    /\ currentPage = BinsPage
    /\ searchTerm' = term
    /\ binsData' = SourceAfterSort(binsData, sortConfig)
    /\ sortedData' = SortedCopy(binsData, sortConfig)
    /\ UNCHANGED <<variant, point, assigned, currentPage, isLoggedIn, sortConfig>>

\* goBack and the navigation menu: navigateToPage(page); on another page
\* BinPage is unmounted and its state is gone
NavigateFromBinPage(page) ==
    /\ currentPage = BinsPage
    /\ page \in BinPageNavTargets(isLoggedIn)
    /\ currentPage' = page
    /\ IF page = BinsPage
       THEN UNCHANGED <<searchTerm, sortConfig, sortedData>>
       ELSE /\ searchTerm' = ""
            /\ sortConfig' = InitialSortConfig
            /\ sortedData' = SortedCopy(binsData, InitialSortConfig)
    /\ UNCHANGED <<variant, binsData, point, assigned, isLoggedIn>>

\* navigateToPage(8) from another page: App mounts BinPage anew
OpenBinPage ==
    /\ currentPage # BinsPage
    /\ currentPage' = BinsPage
    /\ searchTerm' = ""
    /\ sortConfig' = InitialSortConfig
    /\ binsData' = SourceAfterSort(binsData, InitialSortConfig)
    /\ sortedData' = SortedCopy(binsData, InitialSortConfig)
    /\ UNCHANGED <<variant, point, assigned, isLoggedIn>>

----------------------------------------------------------------------------
(* ForecastPage: values.                                                   *)

\* a JavaScript number that may be NaN
Num(n) == [isNaN |-> FALSE, value |-> n]
NaN == [isNaN |-> TRUE, value |-> 0]

\* JavaScript truthiness of a number, and >= and <= (false for NaN)
Truthy(y) == ~y.isNaN /\ y.value # 0
GreaterEq(y, n) == ~y.isNaN /\ y.value >= n
LessEq(y, n) == ~y.isNaN /\ y.value <= n

\* the texts the year field is given, and parseInt of each
YearTexts == {"", "0", "2019", "2020", "2030", "2031"}

parseInt(text) ==
    CASE text = "" -> NaN
      [] text = "0" -> Num(0)
      [] text = "2019" -> Num(2019)
      [] text = "2020" -> Num(2020)
      [] text = "2030" -> Num(2030)
      [] text = "2031" -> Num(2031)

Null == [null |-> TRUE]
NoError == "null"
ForecastError == "Failed to fetch forecast data. Please try again."
DetailError == "Failed to fetch detailed forecast for this region."
YearError == "Please enter a valid year between 2020 and 2030."

\* the years handleYearSubmit accepts
MinYear == 2020
MaxYear == 2030

\* the range check with the upper end left out
YearAccepted_exclusive(y) == Truthy(y) /\ GreaterEq(y, MinYear) /\ y.value < MaxYear

YearAccepted(y) == Truthy(y) /\ GreaterEq(y, MinYear) /\ LessEq(y, MaxYear)

\* geographicBins with Central Luzon's marker drawn at [14.9, 120.6]
geographicBins_moved ==
    <<[name |-> "Northern Luzon", coordinates |-> <<165, 1205>>],
      [name |-> "Central Luzon", coordinates |-> <<149, 1206>>],
      [name |-> "Metro Manila", coordinates |-> <<146, 1210>>],
      [name |-> "Southern Philippines", coordinates |-> <<71, 1256>>]>>

\* geographicBins: keys 1..4, coordinates [lat, lon]
geographicBins ==
    <<[name |-> "Northern Luzon", coordinates |-> <<165, 1205>>],
      [name |-> "Central Luzon", coordinates |-> <<151, 1206>>],
      [name |-> "Metro Manila", coordinates |-> <<146, 1210>>],
      [name |-> "Southern Philippines", coordinates |-> <<71, 1256>>]>>

\* the fallback list without its last record
fallbackData_short ==
    <<[bin_id |-> 1, max_magnitude |-> 42, num_earthquakes |-> 15, risk_level |-> "low"],
      [bin_id |-> 2, max_magnitude |-> 58, num_earthquakes |-> 8, risk_level |-> "medium"],
      [bin_id |-> 3, max_magnitude |-> 65, num_earthquakes |-> 3, risk_level |-> "high"]>>

\* the fallback list with bin 2's tier written as for a magnitude of 6 or more
fallbackData_tier ==
    <<[bin_id |-> 1, max_magnitude |-> 42, num_earthquakes |-> 15, risk_level |-> "low"],
      [bin_id |-> 2, max_magnitude |-> 58, num_earthquakes |-> 8, risk_level |-> "high"],
      [bin_id |-> 3, max_magnitude |-> 65, num_earthquakes |-> 3, risk_level |-> "high"],
      [bin_id |-> 4, max_magnitude |-> 72, num_earthquakes |-> 1, risk_level |-> "critical"]>>

\* the fallback list with the tiers of bins 2 and 3 exchanged
fallbackData_swapped ==
    <<[bin_id |-> 1, max_magnitude |-> 42, num_earthquakes |-> 15, risk_level |-> "low"],
      [bin_id |-> 2, max_magnitude |-> 58, num_earthquakes |-> 8, risk_level |-> "high"],
      [bin_id |-> 3, max_magnitude |-> 65, num_earthquakes |-> 3, risk_level |-> "medium"],
      [bin_id |-> 4, max_magnitude |-> 72, num_earthquakes |-> 1, risk_level |-> "critical"]>>

\* riskColors
riskColors ==
    [low |-> "#28a745", medium |-> "#ffc107", high |-> "#fd7e14",
     critical |-> "#dc3545"]

\* getRiskLevelColor(riskLevel): riskColors[riskLevel] || "#6c757d"
getRiskLevelColor(riskLevel) ==
    IF riskLevel \in DOMAIN riskColors THEN riskColors[riskLevel] ELSE "#6c757d"

\* the background colour of a historical marker, magnitude in tenths
markerColor(magnitude) ==
    IF magnitude >= 60 THEN "#dc3545"
    ELSE IF magnitude >= 50 THEN "#fd7e14"
    ELSE "#28a745"

\* the markers drawn: historicalData.slice(0, 20)
MarkersDrawn == SubSeq(historicalData, 1, IF Len(historicalData) < 20
                                          THEN Len(historicalData) ELSE 20)

\* the keys of riskColors, in the order they are written
RiskOrder == <<"low", "medium", "high", "critical">>

\* the list generateForecast sets when the request fails
fallbackData ==
    <<[bin_id |-> 1, max_magnitude |-> 42, num_earthquakes |-> 15, risk_level |-> "low"],
      [bin_id |-> 2, max_magnitude |-> 58, num_earthquakes |-> 8, risk_level |-> "medium"],
      [bin_id |-> 3, max_magnitude |-> 65, num_earthquakes |-> 3, risk_level |-> "high"],
      [bin_id |-> 4, max_magnitude |-> 72, num_earthquakes |-> 1, risk_level |-> "critical"]>>

\* the rows the placeholder revision starts with
placeholderData ==
    <<[bin |-> 1, maxMag |-> "-", noOfEq |-> "-"],
      [bin |-> 2, maxMag |-> "-", noOfEq |-> "-"],
      [bin |-> 3, maxMag |-> "-", noOfEq |-> "-"],
      [bin |-> 4, maxMag |-> "-", noOfEq |-> "-"]>>

----------------------------------------------------------------------------
(* The backend behind the page, from the specification (4.4, 4.5, 6).      *)

\* 4.4 step 3: ascending thresholds, inclusive on the lower bound of a tier
MediumFrom == 50
HighFrom == 60
CriticalFrom == 70

riskLevel(m) ==
    IF m < MediumFrom THEN "low"
    ELSE IF m < HighFrom THEN "medium"
    ELSE IF m < CriticalFrom THEN "high"
    ELSE "critical"

\* 4.5, 6: forecast(year) rejects a year outside the inclusive range
BackendAcceptsYear(y) == ~y.isNaN /\ y.value >= MinYear /\ y.value <= MaxYear

\* what the forecasting model may give for the four bins: their max magnitudes
Profiles == {<<0, 49, 50, 59>>, <<60, 69, 70, 81>>}

\* 4.4: one record for each bin, by ascending bin id, the tier from the magnitude
BackendForecast(profile) ==
    [b \in DOMAIN geographicBins |->
        [bin_id |-> b, max_magnitude |-> profile[b], num_earthquakes |-> b,
         risk_level |-> riskLevel(profile[b])]]

\* 4.4: forecastDetail is NotFound for a bin that is not in the registry
BackendHasBin(b) == b \in DOMAIN geographicBins

BackendDetail(b) == [bin_id |-> b, location |-> geographicBins[b].name]

\* what /api/historical-data may answer
HistoricalLists ==
    {<<>>, <<[id |-> 1, magnitude |-> 45], [id |-> 2, magnitude |-> 62]>>}

----------------------------------------------------------------------------
(* ForecastPage, live revision: the state machine.                         *)

\* the calendar years in which the page is opened: the page reads the year
\* only as currentYear + 1, the first inputYear, which is within the accepted
\* range up to MaxYear - 1 and beyond it from MaxYear on
MinOpenYear == 2029
MaxOpenYear == 2030

\* detail requests the model lets be in flight at once
MaxDetailInFlight == 1

NoLoad == [outcome |-> "none", year |-> NaN]

RemoveAt(s, i) == [k \in 1..(Len(s) - 1) |-> IF k < i THEN s[k] ELSE s[k + 1]]

\* useState initialisers of the live revision (lines 162-168)
InitForecast ==
    /\ currentYear \in MinOpenYear..MaxOpenYear
    /\ mounted = FALSE
    /\ inputYear = Num(currentYear + 1)
    /\ forecastData = <<>>
    /\ loading = FALSE
    /\ selectedBin = Null
    /\ historicalData = <<>>
    /\ error = NoError
    /\ forecastReqs = <<>>
    /\ detailReqs = <<>>
    /\ historicalReqs = 0
    /\ completed = NoLoad

\* the live revision is not the one built: its state never changes
ForecastClosed ==
    /\ currentYear = MinOpenYear
    /\ mounted = FALSE
    /\ inputYear = Num(currentYear + 1)
    /\ forecastData = <<>>
    /\ loading = FALSE
    /\ selectedBin = Null
    /\ historicalData = <<>>
    /\ error = NoError
    /\ forecastReqs = <<>>
    /\ detailReqs = <<>>
    /\ historicalReqs = 0
    /\ completed = NoLoad

\* generateForecast up to its await: setLoading(true), setError(null), the GET
GenerateForecastStart ==
    /\ loading' = TRUE
    /\ error' = NoError
    /\ forecastReqs' = Append(forecastReqs, [year |-> inputYear])

\* loadHistoricalData up to its await
LoadHistoricalDataStart ==
    historicalReqs' = historicalReqs + 1

\* useEffect(..., []): generateForecast(); loadHistoricalData()
Mount ==
    /\ revision = "live"
    /\ ~mounted
    /\ mounted' = TRUE
    /\ GenerateForecastStart
    /\ LoadHistoricalDataStart
    /\ UNCHANGED <<currentYear, inputYear, forecastData, selectedBin,
                   historicalData, detailReqs, completed>>

\* generateForecast after the await, the request answered: try, then finally
ForecastResponseOk(i, profile) ==
    /\ i \in DOMAIN forecastReqs
    /\ BackendAcceptsYear(forecastReqs[i].year)
    /\ forecastData' = BackendForecast(profile)
    /\ loading' = FALSE
    /\ forecastReqs' = RemoveAt(forecastReqs, i)
    /\ completed' = [outcome |-> "ok", year |-> forecastReqs[i].year]
    /\ UNCHANGED <<currentYear, mounted, inputYear, selectedBin, historicalData,
                   error, detailReqs, historicalReqs>>

\* a catch that keeps the list that was shown before
ForecastResponseFail_stale(i) ==
    /\ i \in DOMAIN forecastReqs
    /\ error' = ForecastError
    /\ loading' = FALSE
    /\ forecastReqs' = RemoveAt(forecastReqs, i)
    /\ completed' = [outcome |-> "fallback", year |-> forecastReqs[i].year]
    /\ UNCHANGED <<currentYear, mounted, inputYear, forecastData, selectedBin,
                   historicalData, detailReqs, historicalReqs>>

\* generateForecast after the await, the request failed: catch, then finally
ForecastResponseFail(i) ==
    /\ i \in DOMAIN forecastReqs
    /\ error' = ForecastError
    /\ forecastData' = fallbackData
    /\ loading' = FALSE
    /\ forecastReqs' = RemoveAt(forecastReqs, i)
    /\ completed' = [outcome |-> "fallback", year |-> forecastReqs[i].year]
    /\ UNCHANGED <<currentYear, mounted, inputYear, selectedBin, historicalData,
                   detailReqs, historicalReqs>>

\* loadHistoricalData after the await: setHistoricalData
HistoricalResponseOk(list) ==
    /\ historicalReqs > 0
    /\ historicalReqs' = historicalReqs - 1
    /\ historicalData' = list
    /\ UNCHANGED <<currentYear, mounted, inputYear, forecastData, loading,
                   selectedBin, error, forecastReqs, detailReqs, completed>>

\* a catch that shows the failure as the other catches do
HistoricalResponseFail_shown ==
    /\ historicalReqs > 0
    /\ historicalReqs' = historicalReqs - 1
    /\ error' = ForecastError
    /\ UNCHANGED <<currentYear, mounted, inputYear, forecastData, loading,
                   selectedBin, historicalData, forecastReqs, detailReqs,
                   completed>>

\* loadHistoricalData's catch: the failure is logged only
HistoricalResponseFail ==
    /\ historicalReqs > 0
    /\ historicalReqs' = historicalReqs - 1
    /\ UNCHANGED <<currentYear, mounted, inputYear, forecastData, loading,
                   selectedBin, historicalData, error, forecastReqs, detailReqs,
                   completed>>

\* a click on a row of the forecast table: getBinForecast(row.bin_id) up to its await
GetBinForecastStart(row) ==
    /\ mounted
    /\ row \in DOMAIN forecastData
    /\ detailReqs' = Append(detailReqs, [bin_id |-> forecastData[row].bin_id])
    /\ UNCHANGED <<currentYear, mounted, inputYear, forecastData, loading,
                   selectedBin, historicalData, error, forecastReqs,
                   historicalReqs, completed>>

\* getBinForecast after the await: setSelectedBin(response.data)
DetailResponseOk(i) ==
    /\ i \in DOMAIN detailReqs
    /\ BackendHasBin(detailReqs[i].bin_id)
    /\ selectedBin' = BackendDetail(detailReqs[i].bin_id)
    /\ detailReqs' = RemoveAt(detailReqs, i)
    /\ UNCHANGED <<currentYear, mounted, inputYear, forecastData, loading,
                   historicalData, error, forecastReqs, historicalReqs, completed>>

\* a catch that also drops the detail shown
DetailResponseFail_clears(i) ==
    /\ i \in DOMAIN detailReqs
    /\ error' = DetailError
    /\ selectedBin' = Null
    /\ detailReqs' = RemoveAt(detailReqs, i)
    /\ UNCHANGED <<currentYear, mounted, inputYear, forecastData, loading,
                   historicalData, forecastReqs, historicalReqs, completed>>

\* getBinForecast's catch: setError
DetailResponseFail(i) ==
    /\ i \in DOMAIN detailReqs
    /\ error' = DetailError
    /\ detailReqs' = RemoveAt(detailReqs, i)
    /\ UNCHANGED <<currentYear, mounted, inputYear, forecastData, loading,
                   selectedBin, historicalData, forecastReqs, historicalReqs,
                   completed>>

\* the year field's onChange: setInputYear(parseInt(e.target.value))
SetInputYear(text) ==
    /\ mounted
    /\ inputYear' = parseInt(text)
    /\ UNCHANGED <<currentYear, mounted, forecastData, loading, selectedBin,
                   historicalData, error, forecastReqs, detailReqs,
                   historicalReqs, completed>>

\* a Generate button that is enabled while loading as well
HandleYearSubmit_enabled ==
    /\ mounted
    /\ IF YearAccepted(inputYear)
       THEN /\ GenerateForecastStart
            /\ UNCHANGED <<currentYear, mounted, inputYear, forecastData,
                           selectedBin, historicalData, detailReqs,
                           historicalReqs, completed>>
       ELSE /\ error' = YearError
            /\ UNCHANGED <<currentYear, mounted, inputYear, forecastData, loading,
                           selectedBin, historicalData, forecastReqs, detailReqs,
                           historicalReqs, completed>>

\* a click on the Generate button, which is disabled while loading
HandleYearSubmit ==
    /\ mounted
    /\ ~loading
    /\ IF YearAccepted(inputYear)
       THEN /\ GenerateForecastStart
            /\ UNCHANGED <<currentYear, mounted, inputYear, forecastData,
                           selectedBin, historicalData, detailReqs,
                           historicalReqs, completed>>
       ELSE /\ error' = YearError
            /\ UNCHANGED <<currentYear, mounted, inputYear, forecastData, loading,
                           selectedBin, historicalData, forecastReqs, detailReqs,
                           historicalReqs, completed>>

----------------------------------------------------------------------------
(* ForecastPage, placeholder revision (lines 1-154).                       *)

InitPlaceholder ==
    /\ phInputYear = ""
    /\ phForecastData = placeholderData

\* onChange: setInputYear(e.target.value), the text as typed
PhSetInputYear(text) ==
    /\ revision = "placeholder"
    /\ phInputYear' = text
    /\ UNCHANGED phForecastData

\* handleYearSubmit of the placeholder revision: console.log only
PhHandleYearSubmit ==
    /\ revision = "placeholder"
    /\ UNCHANGED phVars

----------------------------------------------------------------------------
(* The backend's registry (README.md) and the Historical Store over it     *)
(* (4.3, 5).  Coordinates and magnitudes in tenths; a timestamp is the     *)
(* year times 1000 plus the day of the year.                               *)

\* the Geographic Bins table; area is the product of the side lengths
readmeBins ==
    LET Row(id, name, b) ==
            [id |-> id, name |-> name, bounds |-> b,
             area |-> (b[2] - b[1]) * (b[4] - b[3])]
    IN  <<Row(1, "Northern Luzon", <<1200, 1210, 160, 180>>),
          Row(2, "Central Luzon", <<1200, 1210, 145, 160>>),
          Row(3, "Metro Manila", <<1205, 1215, 140, 150>>),
          Row(4, "Southern Philippines", <<1250, 1260, 60, 80>>)>>

\* the raw events given to ingest: two at Metro Manila's map point (one of
\* 2024, an older one of 2023), one outside every bin, one with a magnitude
\* below zero
RawEvents ==
    {[timestamp |-> 2024100, lat |-> 146, lon |-> 1210, depth_km |-> 10,
      magnitude |-> 62, place_name |-> "Manila"],
     [timestamp |-> 2023050, lat |-> 146, lon |-> 1210, depth_km |-> 25,
      magnitude |-> 41, place_name |-> "Quezon City"],
     [timestamp |-> 2024200, lat |-> 100, lon |-> 1230, depth_km |-> 0,
      magnitude |-> 55, place_name |-> "Visayas"],
     [timestamp |-> 2024300, lat |-> 71, lon |-> 1256, depth_km |-> 5,
      magnitude |-> -1, place_name |-> "Davao"]}

Year(timestamp) == timestamp \div 1000

\* 4.3 ingest: the validation
Validate(ev) ==
    /\ ev.magnitude >= 0
    /\ ev.depth_km >= 0
    /\ -900 <= ev.lat /\ ev.lat <= 900
    /\ -1800 <= ev.lon /\ ev.lon <= 1800

\* 4.3 ingest: the event as stored, with its id and its bin
Stored(ev, id) ==
    [id |-> id, timestamp |-> ev.timestamp, lat |-> ev.lat, lon |-> ev.lon,
     depth_km |-> ev.depth_km, magnitude |-> ev.magnitude,
     place_name |-> ev.place_name,
     bin_id |-> assign(readmeBins, ev.lat, ev.lon)]

\* configuration: the limit of a query that gives none, and the largest limit
DefaultLimit == 2
MaxLimit == 3

\* 4.3 query: an absent filter lets every event pass
Matches(e, f) ==
    /\ "bin_id" \in DOMAIN f => e.bin_id = f.bin_id
    /\ "min_magnitude" \in DOMAIN f => e.magnitude >= f.min_magnitude
    /\ "max_magnitude" \in DOMAIN f => e.magnitude <= f.max_magnitude

\* 4.3 query: descending by timestamp, events of one timestamp in stored order
RECURSIVE MostRecentFirst(_, _, _)
MostRecentFirst(s, i, acc) ==
    IF i > Len(s) THEN acc
    ELSE LET before == {k \in DOMAIN acc : acc[k].timestamp >= s[i].timestamp}
             k == IF before = {} THEN 0 ELSE SetMax(before)
         IN  MostRecentFirst(s, i + 1,
                SubSeq(acc, 1, k) \o <<s[i]>> \o SubSeq(acc, k + 1, Len(acc)))

\* query with offset 0 replaced by a fixed offset of one
query_skipfirst(events, f) ==
    LET matching == SelectSeq(events, LAMBDA e : Matches(e, f))
        ordered == MostRecentFirst(matching, 1, <<>>)
    IN  SubSeq(ordered, 2, Len(ordered))

\* 4.3 query: filter, order, then offset and limit
query(events, f) ==
    LET matching == SelectSeq(events, LAMBDA e : Matches(e, f))
        ordered == MostRecentFirst(matching, 1, <<>>)
        offset == IF "offset" \in DOMAIN f THEN f.offset ELSE 0
        limit == IF "limit" \in DOMAIN f
                 THEN (IF f.limit < MaxLimit THEN f.limit ELSE MaxLimit)
                 ELSE DefaultLimit
        last == IF offset + limit < Len(ordered) THEN offset + limit
                ELSE Len(ordered)
    IN  SubSeq(ordered, offset + 1, last)

\* a value that may be absent
Some(v) == [value |-> v]
Absent == Null

\* stats that counts every event of the bin, of whatever year
stats_allyears(events, bin_id, year) ==
    LET RECURSIVE Fold(_, _)
        Fold(i, acc) ==
            IF i > Len(events) THEN acc
            ELSE IF events[i].bin_id = bin_id
            THEN Fold(i + 1,
                    [count |-> acc.count + 1,
                     max_magnitude |->
                        IF acc.max_magnitude = Absent
                           \/ acc.max_magnitude.value < events[i].magnitude
                        THEN Some(events[i].magnitude) ELSE acc.max_magnitude])
            ELSE Fold(i + 1, acc)
    IN  Fold(1, [count |-> 0, max_magnitude |-> Absent])

\* 4.3 stats: one pass over the events of the bin and the calendar year
stats(events, bin_id, year) ==
    LET RECURSIVE Fold(_, _)
        Fold(i, acc) ==
            IF i > Len(events) THEN acc
            ELSE IF events[i].bin_id = bin_id /\ Year(events[i].timestamp) = year
            THEN Fold(i + 1,
                    [count |-> acc.count + 1,
                     max_magnitude |->
                        IF acc.max_magnitude = Absent
                           \/ acc.max_magnitude.value < events[i].magnitude
                        THEN Some(events[i].magnitude) ELSE acc.max_magnitude])
            ELSE Fold(i + 1, acc)
    IN  Fold(1, [count |-> 0, max_magnitude |-> Absent])

\* the ingest calls that may run at the same time
Writers == {1, 2}

\* the most events the store is filled with
MaxEvents == 3

Idle == [pc |-> "idle"]
NoRead == [op |-> "none", pc |-> "done"]

\* the filters queries are made with
QueryFilters ==
    {[bin_id |-> 3], [bin_id |-> Unassigned], [bin_id |-> 3, limit |-> MaxLimit],
     [min_magnitude |-> 50, limit |-> 1]}

\* the bins and years stats is asked for
StatsBins == {1, 3}
StatsYears == {2023, 2024}

InitStore ==
    /\ store = <<>>
    /\ lock = 0
    /\ writers = [w \in Writers |-> Idle]
    /\ read = NoRead

\* ingest(event) up to the write lock: a ValidationError rejects the event
\* and changes nothing
IngestBegin(w, ev) ==
    /\ writers[w] = Idle
    /\ Len(store) + Cardinality({v \in Writers : writers[v] # Idle}) < MaxEvents
    /\ IF Validate(ev)
       THEN writers' = [writers EXCEPT ![w] = [pc |-> "waiting", event |-> ev]]
       ELSE UNCHANGED writers
    /\ UNCHANGED <<store, lock, read>>

\* while an event is being written, an event half written is in the store
StoreDuringWrite_partial(events, e) ==
    Append(events, [e EXCEPT !.bin_id = Unassigned, !.magnitude = 0])

\* while an event is being written, the store readers see is as before
StoreDuringWrite(events, e) == events

\* ingest takes the write lock and builds the stored event
IngestAcquire(w) ==
    /\ writers[w].pc = "waiting"
    /\ lock = 0
    /\ lock' = w
    /\ LET e == Stored(writers[w].event, Len(store) + 1)
       IN  /\ writers' = [writers EXCEPT ![w] = [pc |-> "writing", event |-> e]]
           /\ store' = StoreDuringWrite(store, e)
    /\ UNCHANGED read

\* ingest publishes the event in one step and releases the lock
IngestPublish(w) ==
    /\ writers[w].pc = "writing"
    /\ lock = w
    /\ store' = Append(store, writers[w].event)
    /\ lock' = 0
    /\ writers' = [writers EXCEPT ![w] = Idle]
    /\ UNCHANGED read

\* query(filters) starts: it takes the store as it is at this moment
QueryStart(f) ==
    /\ read.pc = "done"
    /\ read' = [op |-> "query", pc |-> "running", filters |-> f,
                startLen |-> Len(store), snapshot |-> store]
    /\ UNCHANGED <<store, lock, writers>>

\* query(filters) answers from what it took
QueryFinish ==
    /\ read.op = "query"
    /\ read.pc = "running"
    /\ read' = [op |-> "query", pc |-> "done", filters |-> read.filters,
                startLen |-> read.startLen, snapshot |-> read.snapshot,
                result |-> query(read.snapshot, read.filters)]
    /\ UNCHANGED <<store, lock, writers>>

\* stats(bin_id, year)
Stats(bin_id, year) ==
    /\ read.pc = "done"
    /\ read' = [op |-> "stats", pc |-> "done", bin_id |-> bin_id, year |-> year,
                startLen |-> Len(store), snapshot |-> store,
                result |-> stats(store, bin_id, year)]
    /\ UNCHANGED <<store, lock, writers>>

----------------------------------------------------------------------------
(* Specifications.                                                         *)

----------------------------------------------------------------------------
(* Navigation: App of App.jsx, whose ForecastPage is Forecasting.jsx, and  *)
(* App of part_000, whose BinPage is part_001.                             *)

\* App.jsx: the component rendered for each value of currentPage
AppPages ==
    <<"LandingPage", "AwarenessPage", "AboutPage", "HotlinePage", "ForecastPage">>

\* App.jsx renders ForecastPage when currentPage === 5
ForecastNowPage == 5

\* part_000: the component rendered for each value of currentPage
VariantPages ==
    [p \in {1, 3, 4, 5, 6, 7, 8} |->
        CASE p = 1 -> "LoginPage"
          [] p = 3 -> "LandingPage"
          [] p = 4 -> "AwarenessPage"
          [] p = 5 -> "AboutPage"
          [] p = 6 -> "HotlinePage"
          [] p = 7 -> "ForecastPage"
          [] p = 8 -> "BinPage"]

\* the components a value of currentPage makes each App render
AppDisplayed(p) == IF p \in DOMAIN AppPages THEN {AppPages[p]} ELSE {}
VariantDisplayed(p) == IF p \in DOMAIN VariantPages THEN {VariantPages[p]} ELSE {}

\* the navigation menu of ForecastPage, in both revisions of Forecasting.jsx
ForecastNavMenu ==
    {[label |-> "Overview", page |-> 1], [label |-> "About", page |-> 3],
     [label |-> "Hotlines", page |-> 4], [label |-> "Awareness", page |-> 2]}

\* goBack and the navigation menu of BinPage; Admin is rendered for isLoggedIn
BinNavMenu ==
    {[label |-> "Back", page |-> 7, loggedIn |-> FALSE],
     [label |-> "Overview", page |-> 3, loggedIn |-> FALSE],
     [label |-> "About", page |-> 5, loggedIn |-> FALSE],
     [label |-> "Hotlines", page |-> 6, loggedIn |-> FALSE],
     [label |-> "Awareness", page |-> 4, loggedIn |-> FALSE],
     [label |-> "Forecast Now", page |-> 7, loggedIn |-> FALSE],
     [label |-> "Bins", page |-> 8, loggedIn |-> FALSE],
     [label |-> "Admin", page |-> 2, loggedIn |-> TRUE]}

\* a click in ForecastPage's menu
ForecastNavigate(page) ==
    /\ appPage = ForecastNowPage
    /\ page \in {c.page : c \in ForecastNavMenu}
    /\ appPage' = page

\* a click in the menu of a page of App.jsx that is not ForecastPage: the
\* menu of ForecastPage, with Forecast Now leading to ForecastPage
OtherAppNavigate(page) ==
    /\ appPage # ForecastNowPage
    /\ page \in {c.page : c \in ForecastNavMenu} \cup {ForecastNowPage}
    /\ appPage' = page

\* a click in the menu of a page of part_000 that is not BinPage: the menu
\* of BinPage, without Bins (see OpenBinPage)
OtherVariantNavigate(page) ==
    /\ currentPage # BinsPage
    /\ page \in BinPageNavTargets(isLoggedIn) \ {BinsPage}
    /\ currentPage' = page
    /\ UNCHANGED <<variant, binsData, point, assigned, isLoggedIn, searchTerm,
                   sortConfig, sortedData>>

\* no row of the forecast table has been clicked
NoClick == 0

Revisions == {"placeholder", "live"}

\* ForecastPage is displayed, in either revision
Init ==
    /\ revision \in Revisions
    /\ IF revision = "live" THEN InitForecast ELSE ForecastClosed
    /\ InitPlaceholder
    /\ variant = 1
    /\ InitBins
    /\ InitBinPageState
    /\ InitStore
    /\ lastClicked = NoClick
    /\ appPage = ForecastNowPage

\* a step of the live revision, of the placeholder revision, of the spatial index
Live(A) == A /\ UNCHANGED <<appPage, lastClicked, binVars, uiVars, storeVars, revision, phVars>>
Placeholder(A) == A /\ UNCHANGED <<appPage, lastClicked, binVars, uiVars, storeVars, revision, fcVars>>
Index(A) == A /\ UNCHANGED <<appPage, lastClicked, uiVars, storeVars, revision, fcVars, phVars>>

Next ==
    \/ Live(Mount)
    \/ \E i \in DOMAIN forecastReqs, profile \in Profiles :
          Live(ForecastResponseOk(i, profile))
    \/ \E i \in DOMAIN forecastReqs : Live(ForecastResponseFail(i))
    \/ \E list \in HistoricalLists : Live(HistoricalResponseOk(list))
    \/ Live(HistoricalResponseFail)
    \/ \E row \in DOMAIN forecastData :
          Len(detailReqs) < MaxDetailInFlight /\ Live(GetBinForecastStart(row))
    \/ \E i \in DOMAIN detailReqs : Live(DetailResponseOk(i))
    \/ \E i \in DOMAIN detailReqs : Live(DetailResponseFail(i))
    \/ \E text \in YearTexts : Live(SetInputYear(text))
    \/ Live(HandleYearSubmit)
    \/ \E text \in YearTexts : Placeholder(PhSetInputYear(text))
    \/ Placeholder(PhHandleYearSubmit)

Spec == Init /\ [][Next]_vars

\* ForecastPage with what the code itself schedules: React runs the mount
\* effect.  axios.get is called without a timeout, so the code sets no time
\* by which a request is answered or given up, and no step after the request
\* is guaranteed.
SpecFair == Spec /\ WF_vars(Live(Mount))

\* the most detail requests awaiting their response when rows are clicked
\* one after another
MaxClicksInFlight == 2

\* ForecastPage's rows are clicked and the details arrive: a step of the
\* page, with the bin of the row clicked last kept
Detail(A) == A /\ UNCHANGED <<appPage, binVars, uiVars, storeVars, lastClicked, revision, phVars>>

ClickRow(row) ==
    /\ Len(detailReqs) < MaxClicksInFlight
    /\ GetBinForecastStart(row)
    /\ lastClicked' = forecastData[row].bin_id
    /\ UNCHANGED <<appPage, binVars, uiVars, storeVars, revision, phVars>>

InitDetail ==
    /\ revision = "live"
    /\ InitForecast
    /\ InitPlaceholder
    /\ variant = 1
    /\ InitBins
    /\ InitBinPageState
    /\ InitStore
    /\ lastClicked = NoClick
    /\ appPage = ForecastNowPage

NextDetail ==
    \/ Detail(Mount)
    \/ \E i \in DOMAIN forecastReqs, profile \in Profiles :
          Detail(ForecastResponseOk(i, profile))
    \/ \E i \in DOMAIN forecastReqs : Detail(ForecastResponseFail(i))
    \/ \E list \in HistoricalLists : Detail(HistoricalResponseOk(list))
    \/ Detail(HistoricalResponseFail)
    \/ \E row \in DOMAIN forecastData : ClickRow(row)
    \/ \E i \in DOMAIN detailReqs : Detail(DetailResponseOk(i))
    \/ \E i \in DOMAIN detailReqs : Detail(DetailResponseFail(i))

SpecDetail == InitDetail /\ [][NextDetail]_vars

\* BinPage is displayed and points are assigned to its bins
InitBinPage ==
    /\ InitBins
    /\ InitBinPageState
    /\ InitStore
    /\ lastClicked = NoClick
    /\ appPage = ForecastNowPage
    /\ revision = "live"
    /\ ForecastClosed
    /\ InitPlaceholder

NextBinPage ==
    \E lat \in ProbeLats, lon \in ProbeLons : Index(AssignPoint(lat, lon))

SpecBinPage == InitBinPage /\ [][NextBinPage]_vars

\* BinPage is displayed and used: sorting, searching, navigating
UI(A) == A /\ UNCHANGED <<appPage, lastClicked, storeVars, revision, fcVars, phVars>>

NextBinUI ==
    \/ \E key \in SortKeys : UI(HandleSort(key))
    \/ \E term \in SearchTerms : UI(SetSearchTerm(term))
    \/ \E page \in 1..BinsPage : UI(NavigateFromBinPage(page))
    \/ UI(OpenBinPage)

SpecBinUI == InitBinPage /\ [][NextBinUI]_vars

\* both Apps as they start, and every navigation click
InitNav ==
    /\ appPage = 1
    /\ currentPage = 3
    /\ isLoggedIn = FALSE
    /\ searchTerm = ""
    /\ sortConfig = InitialSortConfig
    /\ InitBins
    /\ sortedData = SortedCopy(binsData, InitialSortConfig)
    /\ InitStore
    /\ lastClicked = NoClick
    /\ revision = "live"
    /\ ForecastClosed
    /\ InitPlaceholder

AppNav(A) == A /\ UNCHANGED <<binVars, uiVars, storeVars, lastClicked, revision, fcVars, phVars>>

NextNav ==
    \/ \E page \in 1..ForecastNowPage : AppNav(ForecastNavigate(page))
    \/ \E page \in 1..ForecastNowPage : AppNav(OtherAppNavigate(page))
    \/ \E page \in 1..BinsPage : UI(NavigateFromBinPage(page))
    \/ \E page \in 1..BinsPage : UI(OtherVariantNavigate(page))
    \/ UI(OpenBinPage)
    \/ \E key \in SortKeys : UI(HandleSort(key))

SpecNav == InitNav /\ [][NextNav]_vars

\* the Historical Store is ingested into and read, by concurrent calls
InitHistoricalStore ==
    /\ InitStore
    /\ lastClicked = NoClick
    /\ appPage = ForecastNowPage
    /\ variant = 1
    /\ InitBins
    /\ InitBinPageState
    /\ revision = "live"
    /\ ForecastClosed
    /\ InitPlaceholder

StoreStep(A) == A /\ UNCHANGED <<appPage, lastClicked, binVars, uiVars, revision, fcVars, phVars>>

NextStore ==
    \/ \E w \in Writers, ev \in RawEvents : StoreStep(IngestBegin(w, ev))
    \/ \E w \in Writers : StoreStep(IngestAcquire(w))
    \/ \E w \in Writers : StoreStep(IngestPublish(w))
    \/ \E f \in QueryFilters : StoreStep(QueryStart(f))
    \/ StoreStep(QueryFinish)
    \/ \E b \in StatsBins, y \in StatsYears : StoreStep(Stats(b, y))

SpecStore == InitHistoricalStore /\ [][NextStore]_vars

----------------------------------------------------------------------------
(* Properties of the bin table and of assign over it (SpecBinPage).        *)

Matching(bins, lat, lon) == {i \in DOMAIN bins : Contains(bins[i], lat, lon)}

StrictlyInside(b, lat, lon) ==
    /\ lon_min(b) < lon /\ lon < lon_max(b)
    /\ lat_min(b) < lat /\ lat < lat_max(b)

Abs(x) == IF x < 0 THEN -x ELSE x

\* C1: assign is a function of the point over the 24-bin table: a point in no
\* bin gives Unassigned; a point strictly inside exactly one bin gives that
\* bin's id; a point in several bins gives the one with the smallest area and,
\* among equal areas, the smallest id; and over this table a point is in
\* several bins only on an edge or corner they share.
C1_AssignContract ==
    point # NoPoint =>
        LET lat == point[1]
            lon == point[2]
            M == Matching(binsData, lat, lon)
        IN  /\ M = {} => assigned = Unassigned
            /\ \A i \in M :
                  (M = {i} /\ StrictlyInside(binsData[i], lat, lon))
                      => assigned = binsData[i].id
            /\ M # {} =>
                  \E i \in M :
                      /\ assigned = binsData[i].id
                      /\ \A j \in M \ {i} :
                            \/ binsData[i].area < binsData[j].area
                            \/ /\ binsData[i].area = binsData[j].area
                               /\ binsData[i].id < binsData[j].id
            /\ Cardinality(M) > 1 =>
                  \A i \in M : ~StrictlyInside(binsData[i], lat, lon)

\* C1 witness: a corner shared by two bins of equal area and a larger one,
\* assigned to the smaller id of the two equal ones
C1_Witness ==
    /\ point # NoPoint
    /\ LET M == Matching(binsData, point[1], point[2])
       IN  \E i, j, k \in M :
              /\ binsData[i].id < binsData[j].id
              /\ binsData[i].area = binsData[j].area
              /\ binsData[j].area < binsData[k].area
              /\ assigned = binsData[i].id

\* C6: in both revisions of the table, every bin's stored center is the
\* midpoint of its stored bounds.
C6_CenterIsMidpoint ==
    \A i \in DOMAIN binsData :
        LET b == binsData[i]
        IN  /\ 2 * b.center_lon = lon_min(b) + lon_max(b)
            /\ 2 * b.center_lat = lat_min(b) + lat_max(b)

\* C6 witness: the table of the second revision is the one held, and a point
\* has been assigned to the bin whose center it is
C6_Witness ==
    /\ variant = 2
    /\ point # NoPoint
    /\ \E i \in DOMAIN binsData :
          /\ point = <<binsData[i].center_lat, binsData[i].center_lon>>
          /\ assigned = binsData[i].id

\* The product of a bin's side lengths and its stored area, both in units of
\* 1/25,600,000 square degree.  Every coordinate of the table is a multiple of
\* 0.00625 degree (625 in the model's unit), so the quotients are exact.
SideProduct(b) ==
    ((lon_max(b) - lon_min(b)) \div 625) * ((lat_max(b) - lat_min(b)) \div 625) * 1000

StoredArea(b) == b.area * 256

\* C7: every bin's stored area is the product of its side lengths, which are
\* also its stored width and height, within floating-point tolerance (here:
\* one unit of 1/25,600,000 square degree, the arithmetic being exact).
C7_AreaIsSideProduct ==
    \A i \in DOMAIN binsData :
        LET b == binsData[i]
        IN  /\ b.width = lon_max(b) - lon_min(b)
            /\ b.height = lat_max(b) - lat_min(b)
            /\ Abs(StoredArea(b) - SideProduct(b)) <= 1

\* C8: the table is a valid registry definition: ids are non-negative
\* integers, no two bins share an id, no rectangle is degenerate, and
\* load-time validation accepts it.
C8_RegistryValid ==
    /\ \A i \in DOMAIN binsData : binsData[i].id \in Nat
    /\ \A i, j \in DOMAIN binsData : i # j => binsData[i].id # binsData[j].id
    /\ \A i \in DOMAIN binsData :
          /\ lon_min(binsData[i]) < lon_max(binsData[i])
          /\ lat_min(binsData[i]) < lat_max(binsData[i])
    /\ ValidateRegistry(binsData) = "ok"

\* C8 witness: all 24 rows are held, under ids 0..23, and the bin a point was
\* assigned to is identified by its id alone
C8_Witness ==
    /\ {binsData[i].id : i \in DOMAIN binsData} = 0..23
    /\ assigned # Unassigned
    /\ Cardinality({i \in DOMAIN binsData : binsData[i].id = assigned}) = 1

\* C9: no two distinct bins have a common interior point.
C9_NoOverlap ==
    \A i, j \in DOMAIN binsData :
        i # j =>
            ~ /\ lon_min(binsData[i]) < lon_max(binsData[j])
              /\ lon_min(binsData[j]) < lon_max(binsData[i])
              /\ lat_min(binsData[i]) < lat_max(binsData[j])
              /\ lat_min(binsData[j]) < lat_max(binsData[i])

\* C9 witness: a point on an edge that exactly two bins share
C9_Witness ==
    /\ point # NoPoint
    /\ Cardinality(Matching(binsData, point[1], point[2])) = 2

\* the bounding rectangle of the table, <<lon_min, lon_max, lat_min, lat_max>>
BoundingRectangle(bins) ==
    <<SetMin({lon_min(bins[i]) : i \in DOMAIN bins}),
      SetMax({lon_max(bins[i]) : i \in DOMAIN bins}),
      SetMin({lat_min(bins[i]) : i \in DOMAIN bins}),
      SetMax({lat_max(bins[i]) : i \in DOMAIN bins})>>

\* C10: the bins cover the bounding rectangle lon 116.3..129.0, lat 2.0..22.0
\* without gaps: every point of it lies in a bin, and assign never answers
\* Unassigned for it.
C10_NoGaps ==
    /\ BoundingRectangle(binsData) = <<11630000, 12900000, 200000, 2200000>>
    /\ point # NoPoint =>
          LET lat == point[1]
              lon == point[2]
          IN  (/\ 11630000 <= lon /\ lon <= 12900000
               /\ 200000 <= lat /\ lat <= 2200000)
                  => /\ Matching(binsData, lat, lon) # {}
                     /\ assigned # Unassigned

\* C10 witness: the south-west corner of the rectangle, assigned to bin 23
C10_Witness ==
    /\ point = <<200000, 11630000>>
    /\ assigned = 23

----------------------------------------------------------------------------
(* Properties of ForecastPage (Spec).                                      *)

\* a number within the supported range of years, 2020 to 2030, ends included
InSupportedRange(y) == ~y.isNaN /\ 2020 <= y.value /\ y.value <= 2030

\* one record for each bin of the page's registry, by ascending bin id
OneRecordPerBin(list) ==
    /\ Len(list) = Len(geographicBins)
    /\ \A i \in DOMAIN list : list[i].bin_id = i

\* C2: once a forecast load for a year of the supported range has completed,
\* by a successful response or by the fallback path, forecastData holds
\* exactly one record for each of the bins 1-4, in ascending bin-id order;
\* the placeholder revision always shows the rows of bins 1, 2, 3, 4 in
\* that order.
C2_OneRecordPerBin ==
    /\ (completed.outcome # "none" /\ InSupportedRange(completed.year))
          => (OneRecordPerBin(forecastData) /\ DOMAIN geographicBins = 1..4)
    /\ [i \in DOMAIN phForecastData |-> phForecastData[i].bin] = <<1, 2, 3, 4>>

\* C2 witness: a load for 2020 has completed by the fallback path
C2_Witness ==
    /\ completed = [outcome |-> "fallback", year |-> Num(2020)]
    /\ ~loading
    /\ Len(forecastData) = 4

\* C3: every record of the fallback list the page builds itself has the
\* risk_level that the thresholds give for its max_magnitude (below 5.0 low,
\* from 5.0 medium, from 6.0 high, from 7.0 critical).
C3_FallbackRiskFromMagnitude ==
    completed.outcome = "fallback" =>
        \A i \in DOMAIN forecastData :
            forecastData[i].risk_level = riskLevel(forecastData[i].max_magnitude)

\* C3 witness: the fallback list is shown, with one record in each tier
C3_Witness ==
    /\ completed.outcome = "fallback"
    /\ {forecastData[i].risk_level : i \in DOMAIN forecastData}
          = {"low", "medium", "high", "critical"}

\* C4: handleYearSubmit starts a forecast request exactly when the entered
\* year is a number from 2020 to 2030; for any other value it sends no
\* request, sets the error message and leaves forecastData, loading and
\* selectedBin as they are.
C4_SubmitValidatesYear ==
    [][Live(HandleYearSubmit) =>
          IF InSupportedRange(inputYear)
          THEN forecastReqs' = Append(forecastReqs, [year |-> inputYear])
          ELSE /\ forecastReqs' = forecastReqs
               /\ error' = YearError
               /\ UNCHANGED <<forecastData, loading, selectedBin>>]_vars

\* C4 witness: 2031 has been submitted and rejected, not clamped to 2030
C4_Witness ==
    /\ inputYear = Num(2031)
    /\ error = YearError
    /\ forecastReqs = <<>>
    /\ ~loading

\* C5: every /api/forecast request the page issues, the one of the mount
\* effect included, carries a year from 2020 to 2030.
C5_RequestYearsInRange ==
    \A i \in DOMAIN forecastReqs : InSupportedRange(forecastReqs[i].year)

----------------------------------------------------------------------------
(* Properties of BinPage's sorting, searching and navigation.              *)

\* the rows of a sequence, as a set
Rows(s) == {s[i] : i \in DOMAIN s}

\* C11: the bin table is immutable at runtime: after any sequence of
\* handleSort calls, changes of the search term and navigations, binsData
\* still holds the same 24 bins with the same field values in the original
\* order; what is sorted is a copy that holds the same rows.
C11_BinsDataImmutable ==
    /\ binsData = BinsOfVariant(variant)
    /\ Len(binsData) = 24
    /\ Cardinality(Rows(binsData)) = 24
    /\ \A i \in DOMAIN binsData : binsData[i].id = i - 1
    /\ Len(sortedData) = Len(binsData)
    /\ Rows(sortedData) = Rows(binsData)

\* C11 witness: the table is displayed sorted by area, largest first, with a
\* search term set, and the displayed order differs from the table's
C11_Witness ==
    /\ currentPage = BinsPage
    /\ sortConfig = [key |-> "area", direction |-> "desc"]
    /\ searchTerm = "luzon"
    /\ sortedData # binsData
    /\ sortedData[1].id = 22

----------------------------------------------------------------------------
(* Properties of the forecast detail and of the fallback path.             *)

\* C12: the detail request getBinForecast issues for a clicked row names
\* the bin and the year of the forecast list the row belongs to.
C12_DetailRequestNamesBinAndYear ==
    \A i \in DOMAIN detailReqs :
        /\ "bin_id" \in DOMAIN detailReqs[i]
        /\ "year" \in DOMAIN detailReqs[i]
        /\ detailReqs[i].year = completed.year

\* C13: a detail request that fails sets the error message and leaves
\* selectedBin, forecastData and loading as they are; the detail shown is
\* never that of a bin that is not in the registry.
C13_DetailFailureKeepsState ==
    /\ [][(\E i \in DOMAIN detailReqs : Live(DetailResponseFail(i))) =>
            /\ error' = DetailError
            /\ UNCHANGED <<selectedBin, forecastData, loading>>]_vars
    /\ [](selectedBin # Null => BackendHasBin(selectedBin.bin_id))

\* C13 witness: a detail is shown, and a later detail request has failed
C13_Witness ==
    /\ selectedBin # Null
    /\ error = DetailError
    /\ detailReqs = <<>>
    /\ Len(forecastData) = Len(geographicBins)

\* C14: when the forecast request fails, generateForecast still ends with
\* one record for each bin: not an empty list, not a partial one, and not
\* the list that was shown before.
C14_FailureYieldsCompleteList ==
    [][(\E i \in DOMAIN forecastReqs : Live(ForecastResponseFail(i))) =>
          /\ OneRecordPerBin(forecastData')
          /\ forecastData' = fallbackData
          /\ completed'.outcome = "fallback"]_vars

\* C14 witness: the first request of the page has failed, the list that was
\* empty before it now has its four records, and nothing is loading
C14_Witness ==
    /\ completed.outcome = "fallback"
    /\ forecastReqs = <<>>
    /\ ~loading
    /\ OneRecordPerBin(forecastData)
    /\ selectedBin = Null

\* C15: after generateForecast has handled a failed request by the fallback
\* list, no error message is displayed: error is null.
C15_FallbackNotSurfaced ==
    [][(\E i \in DOMAIN forecastReqs : Live(ForecastResponseFail(i))) =>
          error' = NoError]_vars

\* the place of a tier in the order low < medium < high < critical
Rank(level) == CHOOSE k \in DOMAIN RiskOrder : RiskOrder[k] = level

\* every record the page can display: of the fallback list, of a response
Displayable ==
    Rows(fallbackData) \cup UNION {Rows(BackendForecast(p)) : p \in Profiles}

\* C16: for any two records a and b that can be displayed, with
\* max_magnitude of a below that of b, the tier of a is not ranked above
\* the tier of b in the order low < medium < high < critical.
C16_RiskMonotonic ==
    /\ Rows(forecastData) \subseteq Displayable
    /\ \A a \in Rows(forecastData), b \in Displayable :
          /\ a.max_magnitude < b.max_magnitude
                => Rank(a.risk_level) <= Rank(b.risk_level)
          /\ b.max_magnitude < a.max_magnitude
                => Rank(b.risk_level) <= Rank(a.risk_level)

\* C16 witness: the fallback list is displayed; its record of magnitude 5.8
\* lies between response records of magnitudes 5.0 and 5.9, all three medium
C16_Witness ==
    /\ forecastData = fallbackData
    /\ \E b \in Displayable \ Rows(fallbackData) :
          /\ b.max_magnitude > forecastData[2].max_magnitude
          /\ b.risk_level = forecastData[2].risk_level

----------------------------------------------------------------------------
(* Properties of the Historical Store (SpecStore).                         *)

\* how many events of a sequence have the id
Occurrences(id, events) == Cardinality({i \in DOMAIN events : events[i].id = id})

\* a query for the bin of the event ingested last, with no other filter, was
\* started after that ingest completed, no ingest has completed since, and
\* the query has answered
QueriedRightAfterIngest ==
    /\ read.op = "query"
    /\ read.pc = "done"
    /\ Len(store) > 0
    /\ read.startLen = Len(store)
    /\ read.filters = [bin_id |-> store[Len(store)].bin_id]

Complete(e) ==
    /\ e.bin_id = assign(readmeBins, e.lat, e.lon)
    /\ \E ev \in RawEvents : Validate(ev) /\ e = Stored(ev, e.id)

\* C18: ingests are mutually exclusive; a query started after an ingest has
\* completed observes that event; a query concurrent with an ingest observes
\* the event completely or not at all, never an event partially written.
C18_SerializedIngestSnapshotReads ==
    /\ Cardinality({w \in Writers : writers[w].pc = "writing"}) <= 1
    /\ \A w \in Writers : writers[w].pc = "writing" <=> lock = w
    /\ \A i \in DOMAIN store : store[i].id = i /\ Complete(store[i])
    /\ read.op # "none" =>
          /\ read.startLen <= Len(read.snapshot)
          /\ Len(read.snapshot) <= Len(store)
          /\ \A i \in DOMAIN read.snapshot :
                Complete(read.snapshot[i]) /\ read.snapshot[i] = store[i]
    /\ (read.op = "query" /\ read.pc = "done") =>
          \A i \in DOMAIN read.result :
              /\ Complete(read.result[i])
              /\ read.result[i] = store[read.result[i].id]

\* C18 witness: a query that observed one completed ingest is running, a
\* second ingest has completed since and a third is writing
C18_Witness ==
    /\ read.op = "query"
    /\ read.pc = "running"
    /\ read.startLen = 1
    /\ Len(store) = 2
    /\ lock = 1
    /\ writers[1].pc = "writing"

C20_MapBinsAreReadmeBins ==
    /\ DOMAIN geographicBins = 1..4
    /\ DOMAIN readmeBins = DOMAIN geographicBins
    /\ \A k \in DOMAIN geographicBins :
          LET lat == geographicBins[k].coordinates[1]
              lon == geographicBins[k].coordinates[2]
          IN  /\ readmeBins[k].id = k
              /\ readmeBins[k].name = geographicBins[k].name
              /\ Contains(readmeBins[k], lat, lon)
              /\ assign(readmeBins, lat, lon) = k
              /\ \A i \in DOMAIN store :
                    (store[i].lat = lat /\ store[i].lon = lon)
                        => store[i].bin_id = k

\* C20 witness: an event at Metro Manila's map coordinate, which lies in the
\* README rectangles of Central Luzon and of Metro Manila, is stored in bin 3
C20_Witness ==
    \E i \in DOMAIN store :
        /\ <<store[i].lat, store[i].lon>> = geographicBins[3].coordinates
        /\ Contains(readmeBins[2], store[i].lat, store[i].lon)
        /\ Contains(readmeBins[3], store[i].lat, store[i].lon)
        /\ readmeBins[3].area < readmeBins[2].area
        /\ store[i].bin_id = 3

----------------------------------------------------------------------------
(* Properties of ForecastPage's requests (Spec, SpecFair).                 *)

\* C21: every generateForecast call eventually finishes with loading =
\* false, also when the backend never answers; the page cannot stay in the
\* loading state for ever.
C21_LoadingEnds == loading ~> ~loading

\* C22: the colour of a historical event's map marker is the colour a
\* forecast record of the same magnitude gets for its risk tier (low below
\* 5.0, medium from 5.0, high from 6.0, critical from 7.0).
C22_MarkerColourIsTierColour ==
    \A i \in DOMAIN MarkersDrawn :
        markerColor(MarkersDrawn[i].magnitude)
            = getRiskLevelColor(riskLevel(MarkersDrawn[i].magnitude))

\* the text is the term with something before it and something after it
IsSubstring(term, text) ==
    \E before, after \in 0..Len(text) :
        /\ before + Len(term) + after = Len(text)
        /\ SubSeq(text, before + 1, before + Len(term)) = term

\* the texts of a bin that the search looks at
SearchedTexts(b) ==
    {IntText(b.id), DecimalText(b.center_lat), DecimalText(b.center_lon)}
        \cup {toLowerCase(b.locations[k]) : k \in DOMAIN b.locations}

\* C23: on BinPage a bin is listed if and only if the lower-cased search
\* term is a substring of its id text, of one of its lower-cased location
\* names, or of its center latitude or longitude text; the empty term lists
\* all 24 bins, 'Total Bins' is the number of rows listed, and 'No bins
\* found' is shown exactly when that number is 0.
C23_ListedIffTermFound ==
    /\ \A i \in DOMAIN sortedData :
          (sortedData[i] \in Rows(filteredData))
              <=> \E t \in SearchedTexts(sortedData[i]) :
                      IsSubstring(toLowerCase(searchTerm), t)
    /\ Rows(filteredData) \subseteq Rows(sortedData)
    /\ Cardinality(Rows(filteredData)) = Len(filteredData)
    /\ searchTerm = "" => Len(filteredData) = 24
    /\ totalBins = Cardinality(Rows(filteredData))
    /\ noResultsShown <=> Rows(filteredData) = {}

\* C23 witness: the term typed in capitals lists some bins and not others,
\* by their lower-cased location names
C23_Witness ==
    /\ currentPage = BinsPage
    /\ searchTerm = "MINDANAO"
    /\ totalBins > 0
    /\ totalBins < 24
    /\ ~noResultsShown

\* C24: at most one /api/forecast request is outstanding at any time;
\* loading is true from the start of generateForecast until its response
\* or failure has been handled, and handleYearSubmit is only triggered
\* while loading is false.
C24_OneForecastRequest ==
    /\ [](Len(forecastReqs) <= 1)
    /\ [](loading <=> forecastReqs # <<>>)
    /\ [][Live(HandleYearSubmit) => ~loading]_vars

\* C24 witness: after the load of the mount effect has been answered, a
\* request made by the Generate button is outstanding, the only one
C24_Witness ==
    /\ completed.outcome = "ok"
    /\ loading
    /\ forecastReqs = <<[year |-> Num(2020)]>>
    /\ historicalReqs = 0

\* C25: after any sequence of row clicks, once every outstanding detail
\* request has completed successfully, selectedBin holds the detail of the
\* bin clicked last, whatever the order in which the responses arrive.
C25_LastClickWins ==
    (/\ lastClicked # NoClick
     /\ detailReqs = <<>>
     /\ error # DetailError)
        => (selectedBin # Null /\ selectedBin.bin_id = lastClicked)

\* the year in the table title: 'Annual Forecast for {inputYear}'
titleYear == inputYear

\* C26: whenever loading is false and the forecast list is non-empty, the
\* year shown in the table title equals the year for which the displayed
\* list was requested.
C26_TitleYearIsListYear ==
    (revision = "live" /\ ~loading /\ forecastData # <<>>)
        => titleYear = completed.year

\* C27: loadHistoricalData writes only historicalData: when its request is
\* answered or fails, error, loading, forecastData and selectedBin stay as
\* they are, however it interleaves with generateForecast; when it fails,
\* historicalData stays as it is too and no error is shown.
C27_HistoricalLoadFrame ==
    [][/\ ((\E list \in HistoricalLists : Live(HistoricalResponseOk(list)))
              \/ Live(HistoricalResponseFail))
          => UNCHANGED <<error, loading, forecastData, selectedBin>>
       /\ Live(HistoricalResponseFail) => UNCHANGED <<error, historicalData>>]_vars

\* C27 witness: the historical request of the mount effect has been answered
\* with events while the forecast request is still outstanding
C27_Witness ==
    /\ mounted
    /\ historicalReqs = 0
    /\ historicalData # <<>>
    /\ loading
    /\ forecastReqs # <<>>
    /\ error = NoError

\* C28: handleSort(key) is a two-state toggle per column: after a header
\* click the sort key is the clicked column, and the direction is desc
\* exactly when the state before the click had that same key with direction
\* asc; a click on another column always gives asc.
C28_SortToggle ==
    /\ [](sortConfig.key \in SortKeys /\ sortConfig.direction \in {"asc", "desc"})
    /\ [][\A key \in SortKeys :
            UI(HandleSort(key)) =>
               /\ sortConfig'.key = key
               /\ sortConfig'.direction = "desc"
                     <=> (sortConfig.key = key /\ sortConfig.direction = "asc")
               /\ key # sortConfig.key => sortConfig'.direction = "asc"]_vars

\* C28 witness: the center latitude column has been clicked twice in a row
C28_Witness ==
    /\ currentPage = BinsPage
    /\ sortConfig = [key |-> "center_lat", direction |-> "desc"]
    /\ searchTerm = ""

\* the value of a bin in the column sorted by
KeyOf(b, key) ==
    CASE key = "id" -> b.id
      [] key = "area" -> b.area
      [] key = "center_lat" -> b.center_lat
      [] key = "center_lon" -> b.center_lon

\* C29: for every sortConfig reachable by header clicks, sortedData is a
\* permutation of all 24 bins ordered by the sort key, non-decreasing for
\* asc and non-increasing for desc, and bins with equal key values appear
\* in ascending id order in both directions.
C29_SortedStable ==
    /\ Len(sortedData) = 24
    /\ Rows(sortedData) = Rows(binsData)
    /\ \A i, j \in DOMAIN sortedData :
          i < j =>
             LET a == KeyOf(sortedData[i], sortConfig.key)
                 b == KeyOf(sortedData[j], sortConfig.key)
             IN  /\ IF sortConfig.direction = "asc" THEN a <= b ELSE a >= b
                 /\ a = b => sortedData[i].id < sortedData[j].id

\* C29 witness: the table is sorted by center longitude, largest first, and
\* two bins of one longitude follow each other with the smaller id first
C29_Witness ==
    /\ sortConfig = [key |-> "center_lon", direction |-> "desc"]
    /\ \E i \in 1..(Len(sortedData) - 1) :
          /\ sortedData[i].center_lon = sortedData[i + 1].center_lon
          /\ sortedData[i].id < sortedData[i + 1].id
    /\ sortedData[1].center_lon > sortedData[Len(sortedData)].center_lon

----------------------------------------------------------------------------
(* Properties of navigation (SpecNav).                                     *)

\* the component each label of a menu names
LabelComponent ==
    [l \in {"Overview", "About", "Hotlines", "Awareness", "Forecast Now", "Bins",
            "Back"} |->
        CASE l = "Overview" -> "LandingPage"
          [] l = "About" -> "AboutPage"
          [] l = "Hotlines" -> "HotlinePage"
          [] l = "Awareness" -> "AwarenessPage"
          [] l = "Forecast Now" -> "ForecastPage"
          [] l = "Bins" -> "BinPage"
          [] l = "Back" -> "ForecastPage"]

=============================================================================
